---------------------------- MODULE Spec2Model ----------------------------
(***************************************************************************)
(* Model of the two engines of the repository:                             *)
(*   - ApprovalOracle      (src/src/core/approval/ApprovalOracle.ts)        *)
(*   - ArchitectOrchestrator                                               *)
(*       (src/cline-extended/src/core/architect/ArchitectOrchestrator.ts)  *)
(* Strings are TLA+ strings; TLC evaluates Len, \o and SubSeq on them, so  *)
(* the string functions of the source are computed character by character. *)
(***************************************************************************)
EXTENDS Integers, Sequences, FiniteSets, TLC

VARIABLES
    persistedRules,   \* ApprovalOracle.persistedRules: Map<string, boolean>
    calls,            \* the decide calls made so far, in the order they began
    adminOps,         \* how many clearPersistedRules / importRules calls were made
    engine,           \* the ApprovalOracle: its configuration and custom matchers
    genInput,         \* a target handed to extractPattern
    genTrace,         \* its successive generalizations
    config,           \* ArchitectOrchestrator.config and what the analyzer loaded
    state,            \* ArchitectOrchestrator.state
    codebaseContext,  \* run: the codebaseContext parameter
    locals,           \* run: plan, implementation, evaluation of the iteration
    pc,               \* run: where the generator is suspended
    updates,          \* the ArchitectUpdates yielded so far
    roleCalls,        \* the architectPlan / editorImplement / architectEvaluate calls
    approvals,        \* the requestApproval calls made so far
    host,             \* the consumer of run: its abort flag, the getState result it holds
    twin,             \* a second ApprovalOracle built from the same configuration
    baseline          \* an earlier run, as it ended: of an orchestrator with other
                      \* persona settings, or of this orchestrator

oracleVars == <<persistedRules, calls, adminOps, engine>>

patternVars == <<genInput, genTrace>>

runVars == <<config, state, codebaseContext, locals, pc, updates, roleCalls,
             approvals>>

hostVars == <<host, twin, baseline>>

vars == <<persistedRules, calls, adminOps, engine, genInput, genTrace,
          config, state, codebaseContext, locals, pc, updates, roleCalls,
          approvals, host, twin, baseline>>

(***************************************************************************)
(* String helpers (JavaScript String.prototype counterparts).              *)
(***************************************************************************)
CharAt(s, i) ==
    SubSeq(s, i, i)

StartsWithAt(s, pos, lit) ==
    /\ pos + Len(lit) - 1 <= Len(s)
    /\ SubSeq(s, pos, pos + Len(lit) - 1) = lit

StartsWith(s, lit) ==
    StartsWithAt(s, 1, lit)

EndsWith(s, lit) ==
    /\ Len(lit) <= Len(s)
    /\ SubSeq(s, Len(s) - Len(lit) + 1, Len(s)) = lit

Contains(s, lit) ==
    \E i \in 1..(Len(s) + 1) : StartsWithAt(s, i, lit)

From(s, pos) ==
    SubSeq(s, pos, Len(s))

\* the least element of a non-empty set of positions
Least(ps) ==
    CHOOSE x \in ps : \A y \in ps : x <= y

UpperChars ==
    "ABCDEFGHIJKLMNOPQRSTUVWXYZ"

LowerChars ==
    "abcdefghijklmnopqrstuvwxyz"

Digits ==
    {"0", "1", "2", "3", "4", "5", "6", "7", "8", "9"}

\* the characters a regular expression's . does not match
LineTerminators ==
    {"\n", "\r"}

\* the characters String.prototype.trim removes (those the model's texts use)
WhiteSpace ==
    {" ", "\t", "\n", "\r"}

IsAlpha(c) ==
    \E i \in 1..26 : CharAt(UpperChars, i) = c \/ CharAt(LowerChars, i) = c

LowerChar(c) ==
    IF \E i \in 1..26 : CharAt(UpperChars, i) = c
    THEN CharAt(LowerChars, CHOOSE i \in 1..26 : CharAt(UpperChars, i) = c)
    ELSE c

UpperChar(c) ==
    IF \E i \in 1..26 : CharAt(LowerChars, i) = c
    THEN CharAt(UpperChars, CHOOSE i \in 1..26 : CharAt(LowerChars, i) = c)
    ELSE c

\* the one-character string c, mapped; which = "lower" | "upper" | "slash"
MapChar(c, which) ==
    CASE which = "lower" -> LowerChar(c)
      [] which = "upper" -> UpperChar(c)
      [] OTHER -> IF c = "\\" THEN "/" ELSE c

RECURSIVE MapChars(_, _)
\* s with every character mapped (halving s keeps the recursion shallow)
MapChars(s, which) ==
    IF Len(s) = 0 THEN ""
    ELSE IF Len(s) = 1 THEN MapChar(s, which)
    ELSE LET h == Len(s) \div 2
         IN  MapChars(SubSeq(s, 1, h), which) \o MapChars(SubSeq(s, h + 1, Len(s)), which)

ToLowerCase(s) ==
    MapChars(s, "lower")

ToUpperCase(s) ==
    MapChars(s, "upper")

\* target.replace(/\\/g, "/")
NormalizeSeparators(s) ==
    MapChars(s, "slash")

(***************************************************************************)
(* Regular expressions of the rule lists.  Every matcher of the source is  *)
(* anchored at ^ and built from literals, alternations (a|b), .*, [a-zA-Z],*)
(* $ and ($|x); a matcher is the sequence of these items and its i flag.   *)
(***************************************************************************)
Lit(s) ==
    [k |-> "lit", a |-> <<s>>]

Alt(ss) ==
    [k |-> "lit", a |-> ss]

AnyStar ==
    [k |-> "any", a |-> <<>>]

Alpha ==
    [k |-> "alpha", a |-> <<>>]

End ==
    [k |-> "end", a |-> <<>>]

EndOr(s) ==
    [k |-> "endOr", a |-> <<s>>]

\* (?!a|b): none of the strings begins here; nothing is consumed
NotAhead(ss) ==
    [k |-> "notAhead", a |-> ss]

\* the start of a matcher that is not anchored at ^: the match may begin at
\* any position
Skip ==
    [k |-> "skip", a |-> <<>>]

Re(items) ==
    [items |-> items, i |-> FALSE]

LowerItems(items) ==
    [n \in 1..Len(items) |->
        [k |-> items[n].k,
         a |-> [m \in 1..Len(items[n].a) |-> ToLowerCase(items[n].a[m])]]]

\* a matcher with the i flag: letters are compared in lower case
ReI(items) ==
    [items |-> LowerItems(items), i |-> TRUE]

RECURSIVE MatchAt(_, _, _, _)
\* whether items[idx..] of a matcher match s from position pos on (RegExp.test:
\* the match need not reach the end of s unless an item says so)
MatchAt(items, idx, s, pos) ==
    IF idx > Len(items) THEN TRUE
    ELSE LET it == items[idx]
         IN  CASE it.k = "lit" ->
                    \E n \in 1..Len(it.a) :
                        /\ StartsWithAt(s, pos, it.a[n])
                        /\ MatchAt(items, idx + 1, s, pos + Len(it.a[n]))
               [] it.k = "any" ->
                    \E q \in pos..(Len(s) + 1) :
                        /\ \A j \in pos..(q - 1) : CharAt(s, j) \notin LineTerminators
                        /\ MatchAt(items, idx + 1, s, q)
               [] it.k = "alpha" ->
                    /\ pos <= Len(s)
                    /\ IsAlpha(CharAt(s, pos))
                    /\ MatchAt(items, idx + 1, s, pos + 1)
               [] it.k = "end" ->
                    /\ pos = Len(s) + 1
                    /\ MatchAt(items, idx + 1, s, pos)
               [] it.k = "skip" ->
                    \E q \in pos..(Len(s) + 1) : MatchAt(items, idx + 1, s, q)
               [] it.k = "endOr" ->
                    \/ /\ pos = Len(s) + 1
                       /\ MatchAt(items, idx + 1, s, pos)
                    \/ /\ StartsWithAt(s, pos, it.a[1])
                       /\ MatchAt(items, idx + 1, s, pos + Len(it.a[1]))
               [] it.k = "notAhead" ->
                    /\ \A n \in 1..Len(it.a) : ~StartsWithAt(s, pos, it.a[n])
                    /\ MatchAt(items, idx + 1, s, pos)

\* re.test(s), given s and s in lower case
TestWith(re, s, low) ==
    MatchAt(re.items, 1, IF re.i THEN low ELSE s, 1)

\* re.test(s)
Test(re, s) ==
    TestWith(re, s, ToLowerCase(s))

\* list.some((re) => re.test(s))
SomeTest(list, s) ==
    LET low == ToLowerCase(s)
    IN  \E n \in 1..Len(list) : TestWith(list[n], s, low)

(***************************************************************************)
(* new RegExp(p) on the custom pattern strings of the configuration.  The  *)
(* strings are built from literals, \x, .*, (a|b), [a-zA-Z], ^ and $; a    *)
(* group or a class that is not closed, a ) that closes nothing, a         *)
(* quantifier with nothing to repeat (first in the pattern, or right after *)
(* another quantifier) and a \ at the end are SyntaxErrors.                *)
(***************************************************************************)
SyntaxError ==
    [ok |-> FALSE, items |-> <<>>]

\* the items compiled so far, followed by the rest when that compiled
Then(item, rest) ==
    IF rest.ok THEN [ok |-> TRUE, items |-> <<item>> \o rest.items] ELSE rest

RECURSIVE SplitAlternatives(_, _)
\* the alternatives of the text of a group, from position pos on
SplitAlternatives(text, pos) ==
    LET bars == {i \in pos..Len(text) : CharAt(text, i) = "|"}
    IN  IF bars = {} THEN <<From(text, pos)>>
        ELSE <<SubSeq(text, pos, Least(bars) - 1)>>
                 \o SplitAlternatives(text, Least(bars) + 1)

RECURSIVE CompileFrom(_, _)
\* the items of pattern p from position pos on
CompileFrom(p, pos) ==
    IF pos > Len(p) THEN [ok |-> TRUE, items |-> <<>>]
    ELSE LET c == CharAt(p, pos)
             closes == {i \in (pos + 1)..Len(p) : CharAt(p, i) = ")"}
             brackets == {i \in (pos + 1)..Len(p) : CharAt(p, i) = "]"}
         IN  CASE c = "\\" ->
                    IF pos = Len(p) THEN SyntaxError
                    ELSE Then(Lit(CharAt(p, pos + 1)), CompileFrom(p, pos + 2))
               [] c = "." /\ StartsWithAt(p, pos, ".*") ->
                    Then(AnyStar, CompileFrom(p, pos + 2))
               [] c = "(" ->
                    IF closes = {} THEN SyntaxError
                    ELSE Then(Alt(SplitAlternatives(SubSeq(p, pos + 1, Least(closes) - 1), 1)),
                              CompileFrom(p, Least(closes) + 1))
               [] c = ")" -> SyntaxError
               [] c = "[" ->
                    IF brackets = {} THEN SyntaxError
                    ELSE Then(Alpha, CompileFrom(p, Least(brackets) + 1))
               [] c = "$" /\ pos = Len(p) ->
                    Then(End, CompileFrom(p, pos + 1))
               [] OTHER ->
                    Then(Lit(c), CompileFrom(p, pos + 1))

\* whether a quantifier of the pattern has nothing to repeat: it comes first
\* (after ^ if any), or it is a * or + right after an unescaped quantifier,
\* ( or |
NothingToRepeat(p) ==
    LET first == IF StartsWith(p, "^") THEN 2 ELSE 1
    IN  \/ first <= Len(p) /\ CharAt(p, first) \in {"*", "+", "?"}
        \/ \E i \in (first + 1)..Len(p) :
              /\ CharAt(p, i) \in {"*", "+"}
              /\ CharAt(p, i - 1) \in {"*", "+", "?", "(", "|"}
              /\ (i - 2 >= 1 => CharAt(p, i - 2) # "\\")

\* a RegExp that throws nothing: what does not compile matches nothing
\* (variant of NewRegExp)
NewRegExp_NeverThrows(p) ==
    LET compiled == IF NothingToRepeat(p) THEN SyntaxError
                    ELSE CompileFrom(p, IF StartsWith(p, "^") THEN 2 ELSE 1)
    IN  [ok |-> TRUE,
         re |-> IF compiled.ok THEN Re(compiled.items) ELSE Re(<<Lit("\n")>>)]

\* new RegExp(p): ok = FALSE when it throws a SyntaxError
NewRegExp(p) ==
    LET compiled == IF NothingToRepeat(p) THEN SyntaxError
                    ELSE IF StartsWith(p, "^") THEN CompileFrom(p, 2)
                    ELSE Then(Skip, CompileFrom(p, 1))
    IN  [ok |-> compiled.ok, re |-> Re(compiled.items)]

\* the custom pattern strings a configuration may hold
CustomPatterns ==
    <<"^delete:/data/.*",
      "/cache$",
      "^write:/project/src/app\\.ts$",
      "^execute:(rm|npm) ",
      "^execute:(rm -rf",
      "^write:/project/[",
      "^*delete:"
    >>

\* Fast-path patterns - no Opus call needed
INSTANT_ALLOW ==
    << Re(<<Lit("read:")>>),
       ReI(<<Lit("write:"), AnyStar, Lit("."), Alt(<<"ts", "js", "tsx", "jsx", "py", "rb", "go", "rs", "java", "kt", "swift", "c", "cpp", "h", "hpp", "md", "json", "yaml", "yml", "toml", "css", "scss", "less", "html", "xml", "sql", "sh", "bash", "zsh", "fish", "ps1", "dockerfile", "makefile", "txt", "csv", "env.example">>), End>>),
       Re(<<Lit("write:"), AnyStar, Lit("/src/")>>),
       Re(<<Lit("write:"), AnyStar, Lit("/lib/")>>),
       Re(<<Lit("write:"), AnyStar, Lit("/test/")>>),
       Re(<<Lit("write:"), AnyStar, Lit("/tests/")>>),
       Re(<<Lit("write:"), AnyStar, Lit("/spec/")>>),
       Re(<<Lit("write:"), AnyStar, Lit("/components/")>>),
       Re(<<Lit("write:"), AnyStar, Lit("/pages/")>>),
       Re(<<Lit("write:"), AnyStar, Lit("/app/")>>),
       Re(<<Lit("write:"), AnyStar, Lit("/public/")>>),
       Re(<<Lit("write:"), AnyStar, Lit("/assets/")>>),
       Re(<<Lit("write:"), AnyStar, Lit("/styles/")>>),
       Re(<<Lit("write:"), AnyStar, Lit("/utils/")>>),
       Re(<<Lit("write:"), AnyStar, Lit("/hooks/")>>),
       Re(<<Lit("write:"), AnyStar, Lit("/services/")>>),
       Re(<<Lit("write:"), AnyStar, Lit("/api/")>>),
       Re(<<Lit("write:"), AnyStar, Lit("/models/")>>),
       Re(<<Lit("write:"), AnyStar, Lit("/types/")>>),
       Re(<<Lit("write:"), AnyStar, Lit("/interfaces/")>>),
       Re(<<Lit("write:"), AnyStar, Lit("/contracts/")>>),
       Re(<<Lit("write:"), AnyStar, Lit("/.cline/")>>),
       Re(<<Lit("execute:npm "), Alt(<<"install", "ci", "run", "test", "build", "start", "lint", "format", "typecheck", "dev", "preview">>)>>),
       Re(<<Lit("execute:npx ")>>),
       Re(<<Lit("execute:yarn ")>>),
       Re(<<Lit("execute:pnpm ")>>),
       Re(<<Lit("execute:bun ")>>),
       Re(<<Lit("execute:deno ")>>),
       Re(<<Lit("execute:cargo "), Alt(<<"build", "run", "test", "check", "clippy", "fmt", "add", "remove">>)>>),
       Re(<<Lit("execute:go "), Alt(<<"build", "run", "test", "mod", "get", "fmt", "vet">>)>>),
       Re(<<Lit("execute:pip install")>>),
       Re(<<Lit("execute:pip3 install")>>),
       Re(<<Lit("execute:python ")>>),
       Re(<<Lit("execute:python3 ")>>),
       Re(<<Lit("execute:ruby ")>>),
       Re(<<Lit("execute:bundle ")>>),
       Re(<<Lit("execute:gem install")>>),
       Re(<<Lit("execute:mix ")>>),
       Re(<<Lit("execute:elixir ")>>),
       Re(<<Lit("execute:dotnet ")>>),
       Re(<<Lit("execute:mvn ")>>),
       Re(<<Lit("execute:gradle ")>>),
       Re(<<Lit("execute:make"), EndOr(" ")>>),
       Re(<<Lit("execute:cmake ")>>),
       Re(<<Lit("execute:git "), Alt(<<"status", "diff", "log", "branch", "checkout", "add", "commit", "push", "pull", "fetch", "stash", "rebase", "merge", "clone", "init", "remote", "tag", "show", "blame", "reflog">>)>>),
       Re(<<Lit("execute:ls")>>),
       Re(<<Lit("execute:ll")>>),
       Re(<<Lit("execute:la")>>),
       Re(<<Lit("execute:cat ")>>),
       Re(<<Lit("execute:head ")>>),
       Re(<<Lit("execute:tail ")>>),
       Re(<<Lit("execute:less ")>>),
       Re(<<Lit("execute:more ")>>),
       Re(<<Lit("execute:grep ")>>),
       Re(<<Lit("execute:find ")>>),
       Re(<<Lit("execute:echo ")>>),
       Re(<<Lit("execute:printf ")>>),
       Re(<<Lit("execute:mkdir ")>>),
       Re(<<Lit("execute:touch ")>>),
       Re(<<Lit("execute:cp ")>>),
       Re(<<Lit("execute:mv ")>>),
       Re(<<Lit("execute:cd ")>>),
       Re(<<Lit("execute:pwd")>>),
       Re(<<Lit("execute:which ")>>),
       Re(<<Lit("execute:where ")>>),
       Re(<<Lit("execute:whoami")>>),
       Re(<<Lit("execute:date")>>),
       Re(<<Lit("execute:time ")>>),
       Re(<<Lit("execute:wc ")>>),
       Re(<<Lit("execute:sort ")>>),
       Re(<<Lit("execute:uniq ")>>),
       Re(<<Lit("execute:sed ")>>),
       Re(<<Lit("execute:awk ")>>),
       Re(<<Lit("execute:cut ")>>),
       Re(<<Lit("execute:tr ")>>),
       Re(<<Lit("execute:tee ")>>),
       Re(<<Lit("execute:xargs ")>>),
       Re(<<Lit("execute:env"), EndOr(" ")>>),
       Re(<<Lit("execute:export ")>>),
       Re(<<Lit("execute:source ")>>),
       Re(<<Lit("execute:node ")>>),
       Re(<<Lit("execute:ts-node ")>>),
       Re(<<Lit("execute:tsx ")>>),
       Re(<<Lit("execute:esbuild ")>>),
       Re(<<Lit("execute:tsc"), EndOr(" ")>>),
       Re(<<Lit("execute:eslint ")>>),
       Re(<<Lit("execute:prettier ")>>),
       Re(<<Lit("execute:jest ")>>),
       Re(<<Lit("execute:vitest ")>>),
       Re(<<Lit("execute:mocha ")>>),
       Re(<<Lit("execute:pytest ")>>),
       Re(<<Lit("execute:rspec ")>>),
       Re(<<Lit("execute:phpunit ")>>),
       Re(<<Lit("execute:docker "), Alt(<<"build", "run", "ps", "images", "logs", "exec", "stop", "start", "restart", "pull", "push", "compose">>)>>),
       Re(<<Lit("execute:docker-compose ")>>),
       Re(<<Lit("execute:kubectl "), Alt(<<"get", "describe", "logs", "apply", "delete", "exec", "port-forward">>)>>),
       Re(<<Lit("execute:terraform "), Alt(<<"init", "plan", "apply", "destroy", "validate", "fmt">>)>>),
       Re(<<Lit("execute:curl "), AnyStar, Lit(" localhost")>>),
       Re(<<Lit("execute:curl "), AnyStar, Lit(" 127.0.0.1")>>),
       Re(<<Lit("execute:wget "), AnyStar, Lit(" localhost")>>),
       Re(<<Lit("execute:http ")>>),
       Re(<<Lit("browser:localhost")>>),
       Re(<<Lit("browser:127.0.0.1")>>),
       Re(<<Lit("browser:file://")>>),
       Re(<<Lit("execute:dir"), EndOr(" ")>>),
       Re(<<Lit("execute:type ")>>),
       Re(<<Lit("execute:copy ")>>),
       Re(<<Lit("execute:move ")>>),
       Re(<<Lit("execute:md ")>>),
       Re(<<Lit("execute:rd ")>>),
       Re(<<Lit("execute:set"), EndOr(" ")>>) >>

INSTANT_DENY ==
    << Re(<<Lit("execute:rm -rf /"), End>>),
       Re(<<Lit("execute:rm -rf /*"), End>>),
       Re(<<Lit("execute:rm -rf ~"), End>>),
       Re(<<Lit("execute:rm -rf ~/*"), End>>),
       Re(<<Lit("execute:rm -rf ../")>>),
       Re(<<Lit("execute:dd if="), AnyStar, Lit("of=/dev/")>>),
       Re(<<Lit("execute:mkfs.")>>),
       Re(<<Lit("execute:fdisk ")>>),
       Re(<<Lit("execute:parted ")>>),
       Re(<<Lit("execute:rd /s /q "), Alpha, Lit(":\\"), End>>),
       Re(<<Lit("execute:del /f /s /q "), Alpha, Lit(":\\"), End>>),
       Re(<<Lit("execute:format "), Alpha, Lit(":")>>),
       Re(<<Lit("execute:diskpart")>>),
       Re(<<Lit("execute:"), AnyStar, Lit(">/etc/")>>),
       Re(<<Lit("execute:"), AnyStar, Lit(">/usr/")>>),
       Re(<<Lit("execute:"), AnyStar, Lit(">/bin/")>>),
       Re(<<Lit("execute:"), AnyStar, Lit(">/sbin/")>>),
       Re(<<Lit("execute:"), AnyStar, Lit(">/boot/")>>),
       Re(<<Lit("execute:"), AnyStar, Lit(">/sys/")>>),
       Re(<<Lit("execute:"), AnyStar, Lit(">/proc/")>>),
       Re(<<Lit("write:/etc/")>>),
       Re(<<Lit("write:/usr/")>>),
       Re(<<Lit("write:/bin/")>>),
       Re(<<Lit("write:/sbin/")>>),
       Re(<<Lit("write:/boot/")>>),
       ReI(<<Lit("write:"), Alpha, Lit(":\\Windows\\")>>),
       ReI(<<Lit("write:"), Alpha, Lit(":\\Program Files")>>),
       ReI(<<Lit("write:"), Alpha, Lit(":\\System")>>),
       Re(<<Lit("write:"), AnyStar, Lit("/.env"), End>>),
       Re(<<Lit("write:"), AnyStar, Lit("/.env.local"), End>>),
       Re(<<Lit("write:"), AnyStar, Lit("/.env.production"), End>>),
       Re(<<Lit("write:"), AnyStar, Lit("/.ssh/")>>),
       Re(<<Lit("write:"), AnyStar, Lit("/.aws/")>>),
       Re(<<Lit("write:"), AnyStar, Lit("/.gcp/")>>),
       Re(<<Lit("write:"), AnyStar, Lit("/.azure/")>>),
       ReI(<<Lit("write:"), AnyStar, Lit("/credentials")>>),
       ReI(<<Lit("write:"), AnyStar, Lit("/secrets")>>),
       Re(<<Lit("write:"), AnyStar, Lit("/.netrc"), End>>),
       Re(<<Lit("write:"), AnyStar, Lit("/.npmrc"), End>>),
       Re(<<Lit("write:"), AnyStar, Lit("/.pypirc"), End>>),
       Re(<<Lit("execute:curl"), AnyStar, Lit("|"), AnyStar, Lit("sh"), End>>),
       Re(<<Lit("execute:curl"), AnyStar, Lit("|"), AnyStar, Lit("bash"), End>>),
       Re(<<Lit("execute:wget"), AnyStar, Lit("|"), AnyStar, Lit("sh"), End>>),
       Re(<<Lit("execute:wget"), AnyStar, Lit("|"), AnyStar, Lit("bash"), End>>),
       ReI(<<Lit("execute:powershell"), AnyStar, Lit("-enc")>>),
       ReI(<<Lit("execute:powershell"), AnyStar, Lit("downloadstring")>>),
       Re(<<Lit("execute:chmod 777")>>),
       Re(<<Lit("execute:chmod -R 777")>>),
       Re(<<Lit("execute:chown"), AnyStar, Lit(":"), AnyStar, Lit("/")>>),
       Re(<<Lit("execute:sudo ")>>),
       Re(<<Lit("execute:su ")>>),
       Re(<<Lit("execute:passwd")>>),
       Re(<<Lit("execute:visudo")>>),
       ReI(<<Lit("execute:runas ")>>),
       Re(<<Lit("execute:"), AnyStar, Lit("| curl")>>),
       Re(<<Lit("execute:"), AnyStar, Lit("| nc ")>>),
       Re(<<Lit("execute:"), AnyStar, Lit("| netcat")>>),
       Re(<<Lit("execute:scp "), AnyStar, Lit(" "), AnyStar, Lit("@"), AnyStar, Lit(":")>>),
       Re(<<Lit("execute:rsync "), AnyStar, Lit(" "), AnyStar, Lit("@"), AnyStar, Lit(":")>>),
       ReI(<<Lit("write:"), AnyStar, Lit("wallet")>>),
       Re(<<Lit("write:"), AnyStar, Lit(".key"), End>>),
       Re(<<Lit("write:"), AnyStar, Lit(".pem"), End>>),
       ReI(<<Lit("write:"), AnyStar, Lit("private"), AnyStar, Lit("key")>>) >>

(***************************************************************************)
(* ApprovalOracle.extractPattern: the chain of String.replace calls.       *)
(***************************************************************************)
\* the extensions of /\/[^\/]+\.(ts|js|...)$/i
PatternExtensions ==
    {"ts", "js", "tsx", "jsx", "py", "rb", "go", "rs", "java", "kt",
     "json", "yaml", "yml", "md", "css", "html"}

\* the matches of /\/[^\/]+\.(ext)$/i in s: <<i, j>> with s[i] = "/", s[j] = "."
\* and s[i+1..j-1] a non-empty run without "/", s[j+1..] an extension
ExtensionMatches(s) ==
    {m \in (1..Len(s)) \X (1..Len(s)) :
        /\ CharAt(s, m[1]) = "/"
        /\ m[1] + 1 < m[2]
        /\ CharAt(s, m[2]) = "."
        /\ \A x \in (m[1] + 1)..(m[2] - 1) : CharAt(s, x) # "/"
        /\ ToLowerCase(From(s, m[2] + 1)) \in PatternExtensions}

\* .replace(/\/[^\/]+\.(ts|js|...)$/i, "/*.$1"): the leftmost match, its
\* [^\/]+ as long as it can be; $1 is the extension as written in s
ReplaceExtension(s) ==
    LET ms == ExtensionMatches(s)
    IN  IF ms = {} THEN s
        ELSE LET i == CHOOSE x \in {m[1] : m \in ms} :
                          \A y \in {m[1] : m \in ms} : x <= y
                 j == CHOOSE x \in {m[2] : m \in {n \in ms : n[1] = i}} :
                          \A y \in {m[2] : m \in {n \in ms : n[1] = i}} : x >= y
             IN  SubSeq(s, 1, i - 1) \o "/*." \o From(s, j + 1)

\* the end (exclusive) of what .* matches from position pos on
DotStarEnd(s, pos) ==
    LET stops == {q \in pos..Len(s) : CharAt(s, q) \in LineTerminators}
    IN  IF stops = {} THEN Len(s) + 1
        ELSE Least(stops)

\* .replace(/\/<dir>\/.*/, "/<dir>/*") with lit = "/<dir>/": first match only
ReplaceDirectory(s, lit) ==
    LET at == {i \in 1..Len(s) : StartsWithAt(s, i, lit)}
    IN  IF at = {} THEN s
        ELSE LET i == Least(at)
             IN  SubSeq(s, 1, i - 1) \o lit \o "*"
                     \o From(s, DotStarEnd(s, i + Len(lit)))

\* the end (exclusive) of the digits \d+ matches from position pos on
DigitsEnd(s, pos) ==
    Least({q \in pos..(Len(s) + 1) : q = Len(s) + 1 \/ CharAt(s, q) \notin Digits})

\* .replace(/:\d+/, ":*"): no g flag, the first match only
ReplacePort(s) ==
    LET at == {i \in 1..Len(s) :
                  CharAt(s, i) = ":" /\ DigitsEnd(s, i + 1) > i + 1}
    IN  IF at = {} THEN s
        ELSE LET i == Least(at)
             IN  SubSeq(s, 1, i) \o "*" \o From(s, DigitsEnd(s, i + 1))

RECURSIVE ReplaceNumericFrom(_, _)
\* .replace(/\/\d+/g, "/*") from position pos on: every match, left to right
ReplaceNumericFrom(s, pos) ==
    LET at == {i \in pos..Len(s) :
                  CharAt(s, i) = "/" /\ DigitsEnd(s, i + 1) > i + 1}
    IN  IF at = {} THEN From(s, pos)
        ELSE SubSeq(s, pos, Least(at) - 1) \o "/*"
                 \o ReplaceNumericFrom(s, DigitsEnd(s, Least(at) + 1))

ReplaceNumeric(s) ==
    ReplaceNumericFrom(s, 1)

\* the generalized target of extractPattern (lines 313-327)
GeneralizeTarget(target) ==
    LET t0 == NormalizeSeparators(target)
        t1 == ReplaceExtension(t0)
        t2 == ReplaceDirectory(t1, "/node_modules/")
        t3 == ReplaceDirectory(t2, "/dist/")
        t4 == ReplaceDirectory(t3, "/build/")
        t5 == ReplaceDirectory(t4, "/.next/")
        t6 == ReplaceDirectory(t5, "/target/")
        t7 == ReplaceDirectory(t6, "/vendor/")
        t8 == ReplaceDirectory(t7, "/__pycache__/")
        t9 == ReplacePort(t8)
    IN  ReplaceNumeric(t9)

\* the template literal ${request.action}:${target}
extractPattern(request) ==
    request.action \o ":" \o GeneralizeTarget(request.target)

\* the literal of decide (lines 232-233)
Literal(request) ==
    request.action \o ":" \o NormalizeSeparators(request.target)

(***************************************************************************)
(* ApprovalOracle.parseResponse and the adjudicator's responses.           *)
(***************************************************************************)
\* the values JSON.parse yields for a field: a boolean, a string, a number
\* or undefined
JBool(b) ==
    [t |-> "boolean", b |-> b, s |-> ""]

JStr(s) ==
    [t |-> "string", b |-> FALSE, s |-> s]

JNum ==
    [t |-> "number", b |-> FALSE, s |-> ""]

JUndefined ==
    [t |-> "undefined", b |-> FALSE, s |-> ""]

\* the response texts the adjudicator may send (response.content[0].text);
\* ''' stands for a code fence
ResponseTexts ==
    {"{\"allow\":true,\"persist\":\"always\",\"reasoning\":\"routine\"}",
     "{\"allow\":false,\"persist\":\"always\",\"reasoning\":\"dangerous\"}",
     "{\"allow\":true,\"persist\":\"once\",\"reasoning\":\"one-off\"}",
     "{\"allow\":false,\"persist\":\"session\",\"reasoning\":\"not now\"}",
     "'''json\n{\"allow\":true,\"persist\":\"forever\"}\n'''",
     "{\"allow\":\"yes\",\"persist\":\"always\",\"reasoning\":\"fine\"}",
     "{\"allow\":false,\"reasoning\":42}",
     "null",
     "Looks fine to me.",
     ""}

\* the responses this.client.messages.create may resolve with: a text block,
\* no block, a block without text, no content at all
Responses ==
    {[content |-> <<[type |-> "text", text |-> text]>>] : text \in ResponseTexts}
    \cup {[content |-> <<>>],
          [content |-> <<[type |-> "tool_use"]>>],
          [id |-> "msg"]}

\* response.content[0]?.text || ""
ResponseText(response) ==
    IF response.content = <<>> THEN ""
    ELSE IF "text" \notin DOMAIN response.content[1] THEN ""
    ELSE response.content[1].text

\* JSON.parse on the texts above once cleaned: ok = FALSE is a SyntaxError,
\* object = FALSE is null, whose fields cannot be read
JSONParse(clean) ==
    CASE clean = "{\"allow\":true,\"persist\":\"always\",\"reasoning\":\"routine\"}" ->
            [ok |-> TRUE, object |-> TRUE, allow |-> JBool(TRUE), persist |-> JStr("always"),
             reasoning |-> JStr("routine")]
      [] clean = "{\"allow\":false,\"persist\":\"always\",\"reasoning\":\"dangerous\"}" ->
            [ok |-> TRUE, object |-> TRUE, allow |-> JBool(FALSE), persist |-> JStr("always"),
             reasoning |-> JStr("dangerous")]
      [] clean = "{\"allow\":true,\"persist\":\"once\",\"reasoning\":\"one-off\"}" ->
            [ok |-> TRUE, object |-> TRUE, allow |-> JBool(TRUE), persist |-> JStr("once"),
             reasoning |-> JStr("one-off")]
      [] clean = "{\"allow\":false,\"persist\":\"session\",\"reasoning\":\"not now\"}" ->
            [ok |-> TRUE, object |-> TRUE, allow |-> JBool(FALSE), persist |-> JStr("session"),
             reasoning |-> JStr("not now")]
      [] clean = "{\"allow\":true,\"persist\":\"forever\"}" ->
            [ok |-> TRUE, object |-> TRUE, allow |-> JBool(TRUE), persist |-> JStr("forever"),
             reasoning |-> JUndefined]
      [] clean = "{\"allow\":\"yes\",\"persist\":\"always\",\"reasoning\":\"fine\"}" ->
            [ok |-> TRUE, object |-> TRUE, allow |-> JStr("yes"), persist |-> JStr("always"),
             reasoning |-> JStr("fine")]
      [] clean = "{\"allow\":false,\"reasoning\":42}" ->
            [ok |-> TRUE, object |-> TRUE, allow |-> JBool(FALSE),
             persist |-> JUndefined, reasoning |-> JNum]
      [] clean = "null" ->
            [ok |-> TRUE, object |-> FALSE, allow |-> JUndefined,
             persist |-> JUndefined, reasoning |-> JUndefined]
      [] OTHER ->
            [ok |-> FALSE, object |-> FALSE, allow |-> JUndefined,
             persist |-> JUndefined, reasoning |-> JUndefined]

\* a code fence: three backquotes, written ''' here because a TLA+ string
\* cannot hold a backquote
Fence ==
    "'''"

\* the length of the match of /<fence>json\n?|\n?<fence>/ at position pos, 0 if none
FenceMatch(s, pos) ==
    IF StartsWithAt(s, pos, Fence \o "json\n") THEN Len(Fence) + 5
    ELSE IF StartsWithAt(s, pos, Fence \o "json") THEN Len(Fence) + 4
    ELSE IF StartsWithAt(s, pos, "\n" \o Fence) THEN Len(Fence) + 1
    ELSE IF StartsWithAt(s, pos, Fence) THEN Len(Fence)
    ELSE 0

RECURSIVE StripFencesFrom(_, _)
\* text.replace(/<fence>json\n?|\n?<fence>/g, "") from position pos on
StripFencesFrom(s, pos) ==
    LET at == {i \in pos..Len(s) : FenceMatch(s, i) > 0}
    IN  IF at = {} THEN From(s, pos)
        ELSE SubSeq(s, pos, Least(at) - 1)
                 \o StripFencesFrom(s, Least(at) + FenceMatch(s, Least(at)))

StripFences(s) ==
    StripFencesFrom(s, 1)

\* String.prototype.trim
Trim(s) ==
    LET keep == {i \in 1..Len(s) : CharAt(s, i) \notin WhiteSpace}
    IN  IF keep = {} THEN ""
        ELSE SubSeq(s, CHOOSE i \in keep : \A j \in keep : i <= j,
                       CHOOSE i \in keep : \A j \in keep : i >= j)

\* the scopes with one more accepted (variant of PersistScopes)
PersistScopes_WithForever ==
    {"once", "session", "always", "forever"}

PersistScopes ==
    {"once", "session", "always"}

\* a catch branch that denies for always (variant of ParseFailed)
ParseFailed_DeniesAlways ==
    [allow |-> FALSE, persist |-> "always", reasoning |-> "Parse failed, denying"]

\* the catch branch of parseResponse (lines 350-356)
ParseFailed ==
    [allow |-> TRUE, persist |-> "once", reasoning |-> "Parse failed, allowing once"]

\* parseResponse (lines 332-357) on a response that has a content array
parseResponse(response) ==
    LET text == ResponseText(response)
        clean == Trim(StripFences(text))
        parsed == JSONParse(clean)
    IN  IF ~parsed.ok \/ ~parsed.object \/ parsed.allow.t # "boolean"
        THEN ParseFailed
        ELSE [allow |-> parsed.allow.b,
              persist |-> IF parsed.persist.t = "string"
                             /\ parsed.persist.s \in PersistScopes
                          THEN parsed.persist.s ELSE "once",
              reasoning |-> IF parsed.reasoning.t = "string"
                            THEN parsed.reasoning.s ELSE "No reason provided"]

(***************************************************************************)
(* ApprovalOracle: state and operations.                                   *)
(***************************************************************************)
\* the requests decide is called with ({action, target}; the context only
\* reaches the adjudicator, whose answer is any of ResponseTexts)
Requests ==
    {[action |-> "write",   target |-> "/project/src/app.ts"],
     [action |-> "write",   target |-> "/project/src/wallet.ts"],
     [action |-> "write",   target |-> "/project/src/.env"],
     [action |-> "write",   target |-> "/home/u/.ssh/id_rsa"],
     [action |-> "execute", target |-> "rm -rf /"],
     [action |-> "delete",  target |-> "/data/1/cache"],
     [action |-> "delete",  target |-> "/data/2/cache"]}

\* const pattern = this.extractPattern(request), evaluated once per request
PatternTable ==
    [r \in Requests |-> extractPattern(r)]

\* this.INSTANT_DENY.some((re) => re.test(literal)), evaluated once per request
DenyTable ==
    [r \in Requests |-> SomeTest(INSTANT_DENY, Literal(r))]

\* this.INSTANT_ALLOW.some((re) => re.test(literal)), evaluated once per request
AllowTable ==
    [r \in Requests |-> SomeTest(INSTANT_ALLOW, Literal(r))]

\* the matchers compiled from the custom pattern strings that compile
CustomMatchers ==
    {NewRegExp(CustomPatterns[n]).re :
        n \in {m \in 1..Len(CustomPatterns) : NewRegExp(CustomPatterns[m]).ok}}

\* re.test(literal) for each custom matcher, evaluated once per request
CustomTable ==
    [re \in CustomMatchers |-> [r \in Requests |-> Test(re, Literal(r))]]

\* this.INSTANT_DENY.some(...) on the list the constructor extended
DenyMatches(request) ==
    \/ DenyTable[request]
    \/ \E n \in 1..Len(engine.deny) : CustomTable[engine.deny[n]][request]

\* this.INSTANT_ALLOW.some(...) on the list the constructor extended
AllowMatches(request) ==
    \/ AllowTable[request]
    \/ \E n \in 1..Len(engine.allow) : CustomTable[engine.allow[n]][request]

\* Map.prototype.set on a copy of the map
MapSet(rules, pattern, allow) ==
    [q \in (DOMAIN rules) \cup {pattern} |-> IF q = pattern THEN allow ELSE rules[q]]

CachedRule(rules, pattern) ==
    [allow |-> rules[pattern], persist |-> "always", reasoning |-> "Cached rule"]

BlockedPattern ==
    [allow |-> FALSE, persist |-> "always", reasoning |-> "Blocked pattern"]

SafePattern ==
    [allow |-> TRUE, persist |-> "always", reasoning |-> "Safe pattern"]

\* the catch branch of askOpus (lines 299-307)
ApiError ==
    [allow |-> TRUE, persist |-> "once", reasoning |-> "API error, allowing once"]

\* decide without the lookup of persisted rules (variant of decide)
decide_NoCacheLookup(rules, request) ==
    LET pattern == PatternTable[request]
    IN  IF DenyMatches(request)
        THEN [escalate |-> FALSE, decision |-> BlockedPattern,
              rules |-> MapSet(rules, pattern, FALSE)]
        ELSE IF AllowMatches(request)
        THEN [escalate |-> FALSE, decision |-> SafePattern,
              rules |-> MapSet(rules, pattern, TRUE)]
        ELSE [escalate |-> TRUE, rules |-> rules]

\* decide answering a cached rule with persist "session" (variant of decide)
decide_CachedAsSession(rules, request) ==
    LET pattern == PatternTable[request]
    IN  IF pattern \in DOMAIN rules
        THEN [escalate |-> FALSE,
              decision |-> [allow |-> rules[pattern], persist |-> "session",
                            reasoning |-> "Cached rule"],
              rules |-> rules]
        ELSE IF DenyMatches(request)
        THEN [escalate |-> FALSE, decision |-> BlockedPattern,
              rules |-> MapSet(rules, pattern, FALSE)]
        ELSE IF AllowMatches(request)
        THEN [escalate |-> FALSE, decision |-> SafePattern,
              rules |-> MapSet(rules, pattern, TRUE)]
        ELSE [escalate |-> TRUE, rules |-> rules]

\* decide whose deny fast path does not persist its rule (variant of decide)
decide_DenyNotPersisted(rules, request) ==
    LET pattern == PatternTable[request]
    IN  IF pattern \in DOMAIN rules
        THEN [escalate |-> FALSE, decision |-> CachedRule(rules, pattern),
              rules |-> rules]
        ELSE IF DenyMatches(request)
        THEN [escalate |-> FALSE, decision |-> BlockedPattern, rules |-> rules]
        ELSE IF AllowMatches(request)
        THEN [escalate |-> FALSE, decision |-> SafePattern,
              rules |-> MapSet(rules, pattern, TRUE)]
        ELSE [escalate |-> TRUE, rules |-> rules]

\* decide without the allow fast path (variant of decide)
decide_NoAllowFastPath(rules, request) ==
    LET pattern == PatternTable[request]
    IN  IF pattern \in DOMAIN rules
        THEN [escalate |-> FALSE, decision |-> CachedRule(rules, pattern),
              rules |-> rules]
        ELSE IF DenyMatches(request)
        THEN [escalate |-> FALSE, decision |-> BlockedPattern,
              rules |-> MapSet(rules, pattern, FALSE)]
        ELSE [escalate |-> TRUE, rules |-> rules]

\* decide up to its return or its call of askOpus (lines 229-258): whether it
\* escalates, the decision it returns otherwise, and the cache it leaves
decide(rules, request) ==
    LET pattern == PatternTable[request]
    IN  IF pattern \in DOMAIN rules
        THEN [escalate |-> FALSE, decision |-> CachedRule(rules, pattern),
              rules |-> rules]
        ELSE IF DenyMatches(request)
        THEN [escalate |-> FALSE, decision |-> BlockedPattern,
              rules |-> MapSet(rules, pattern, FALSE)]
        ELSE IF AllowMatches(request)
        THEN [escalate |-> FALSE, decision |-> SafePattern,
              rules |-> MapSet(rules, pattern, TRUE)]
        ELSE [escalate |-> TRUE, rules |-> rules]

\* const decision = this.parseResponse(response), evaluated once per
\* response that has a content array
ParseTable ==
    [response \in {r \in Responses : "content" \in DOMAIN r} |->
        parseResponse(response)]

\* askOpus that also persists decisions of session scope (variant of
\* askOpusResolved)
askOpusResolved_PersistsSession(rules, pattern, response) ==
    IF "content" \notin DOMAIN response
    THEN [decision |-> ApiError, rules |-> rules]
    ELSE LET decision == ParseTable[response]
         IN  [decision |-> decision,
              rules |-> IF decision.persist \in {"always", "session"}
                        THEN MapSet(rules, pattern, decision.allow)
                        ELSE rules]

\* askOpus after the adjudicator answered (lines 292-298); reading
\* content[0] of a response without content throws inside the try block of
\* askOpus, whose catch branch answers
askOpusResolved(rules, pattern, response) ==
    IF "content" \notin DOMAIN response
    THEN [decision |-> ApiError, rules |-> rules]
    ELSE LET decision == ParseTable[response]
         IN  [decision |-> decision,
              rules |-> IF decision.persist = "always"
                        THEN MapSet(rules, pattern, decision.allow)
                        ELSE rules]

\* askOpus whose catch branch persists the allow (variant of askOpusRejected)
askOpusRejected_Persists(rules, pattern) ==
    [decision |-> ApiError, rules |-> MapSet(rules, pattern, TRUE)]

\* askOpus after the adjudicator call threw (lines 299-307)
askOpusRejected(rules, pattern) ==
    [decision |-> ApiError, rules |-> rules]

\* how many decide calls a behaviour makes
MaxCalls ==
    2

\* how many clearPersistedRules / importRules calls a behaviour makes
MaxAdminOps ==
    1

\* the mappings importRules is called with
ImportMaps ==
    {[p \in {"write:/project/src/*.ts"} |-> FALSE],
     [p \in {"delete:/data/*/cache", "execute:rm -rf /"} |-> TRUE]}

\* how many custom patterns each list of a configuration holds at most
MaxCustom ==
    1

\* the sequences of at most MaxCustom custom patterns
CustomLists ==
    UNION {[1..n -> {CustomPatterns[m] : m \in 1..Len(CustomPatterns)}] :
             n \in 0..MaxCustom}

\* an engine before its constructor ran, for a configuration
NewEngine(customAllowPatterns, customDenyPatterns) ==
    [status |-> "new",
     customAllowPatterns |-> customAllowPatterns,
     customDenyPatterns |-> customDenyPatterns,
     allow |-> <<>>, deny |-> <<>>]

\* the engine the constructor leaves for the default configuration (lines
\* 208-214: no custom patterns)
DefaultEngine ==
    [status |-> "constructed",
     customAllowPatterns |-> <<>>, customDenyPatterns |-> <<>>,
     allow |-> <<>>, deny |-> <<>>]

\* patterns.map((p) => new RegExp(p)): ok = FALSE when one of them throws
MapNewRegExp(patterns) ==
    [ok |-> \A n \in 1..Len(patterns) : NewRegExp(patterns[n]).ok,
     res |-> [n \in 1..Len(patterns) |-> NewRegExp(patterns[n]).re]]

\* the constructor (lines 206-227): the custom allow patterns are compiled
\* and appended, then the custom deny patterns; a SyntaxError leaves no engine
Construct ==
    /\ engine.status = "new"
    /\ LET allow == MapNewRegExp(engine.customAllowPatterns)
           deny == MapNewRegExp(engine.customDenyPatterns)
       IN  engine' = IF allow.ok /\ deny.ok
                     THEN [engine EXCEPT !.status = "constructed",
                                         !.allow = allow.res,
                                         !.deny = deny.res]
                     ELSE [engine EXCEPT !.status = "threw"]
    /\ UNCHANGED <<persistedRules, calls, adminOps, patternVars, runVars, hostVars>>

\* no second engine was built
NoTwin ==
    [rules |-> <<>>, calls |-> <<>>, same |-> <<>>]

OracleInit ==
    /\ persistedRules = <<>>
    /\ calls = <<>>
    /\ adminOps = 0
    /\ engine = DefaultEngine
    /\ twin = NoTwin

\* an engine about to be constructed with some configuration
ConstructInit ==
    /\ persistedRules = <<>>
    /\ calls = <<>>
    /\ adminOps = 0
    /\ \E customAllowPatterns \in CustomLists, customDenyPatterns \in CustomLists :
           engine = NewEngine(customAllowPatterns, customDenyPatterns)
    /\ twin = NoTwin

\* a call that returned without escalating
Returned(request, decision) ==
    [request |-> request, escalated |-> FALSE, decision |-> <<decision>>]

\* a call suspended at await this.client.messages.create
Suspended(request) ==
    [request |-> request, escalated |-> TRUE, decision |-> <<>>]

\* a call that returned from askOpus
Resolved(request, decision) ==
    [request |-> request, escalated |-> TRUE, decision |-> <<decision>>]

\* decide(request), up to its return or to the await in askOpus
Decide(request) ==
    /\ engine.status = "constructed"
    /\ Len(calls) < MaxCalls
    /\ LET out == decide(persistedRules, request)
       IN  /\ persistedRules' = out.rules
           /\ calls' = Append(calls, IF out.escalate THEN Suspended(request)
                                     ELSE Returned(request, out.decision))
    /\ UNCHANGED <<adminOps, engine, patternVars, runVars, hostVars>>

\* the adjudicator answers call i: askOpus resumes and returns
OpusResponds(i, response) ==
    /\ i \in 1..Len(calls)
    /\ calls[i] = Suspended(calls[i].request)
    /\ LET out == askOpusResolved(persistedRules, PatternTable[calls[i].request], response)
       IN  /\ persistedRules' = out.rules
           /\ calls' = [calls EXCEPT ![i] = Resolved(calls[i].request, out.decision)]
    /\ UNCHANGED <<adminOps, engine, patternVars, runVars, hostVars>>

\* the adjudicator call of call i throws: askOpus resumes in its catch branch
OpusThrows(i) ==
    /\ i \in 1..Len(calls)
    /\ calls[i] = Suspended(calls[i].request)
    /\ LET out == askOpusRejected(persistedRules, PatternTable[calls[i].request])
       IN  /\ persistedRules' = out.rules
           /\ calls' = [calls EXCEPT ![i] = Resolved(calls[i].request, out.decision)]
    /\ UNCHANGED <<adminOps, engine, patternVars, runVars, hostVars>>

\* clearPersistedRules that keeps the denials (variant of clearPersistedRules)
clearPersistedRules_KeepsDenials(rules) ==
    [q \in {k \in DOMAIN rules : ~rules[k]} |-> FALSE]

\* this.persistedRules.clear()
clearPersistedRules(rules) ==
    <<>>

\* clearPersistedRules (lines 364-366)
ClearPersistedRules ==
    /\ adminOps < MaxAdminOps
    /\ adminOps' = adminOps + 1
    /\ persistedRules' = clearPersistedRules(persistedRules)
    /\ UNCHANGED <<calls, engine, patternVars, runVars, hostVars>>

\* an export that leaves out the denials (variant of exportRules)
exportRules_OnlyAllows(rules) ==
    [q \in {k \in DOMAIN rules : rules[k]} |-> TRUE]

\* exportRules (lines 368-370): Object.fromEntries(this.persistedRules)
exportRules(rules) ==
    rules

\* importRules that clears the cache first (variant of importRules)
importRules_Replaces(rules, mapping) ==
    mapping

\* importRules (lines 372-376): each entry is set, in the mapping's order
importRules(rules, mapping) ==
    [q \in (DOMAIN rules) \cup (DOMAIN mapping) |->
        IF q \in DOMAIN mapping THEN mapping[q] ELSE rules[q]]

ImportRules(mapping) ==
    /\ adminOps < MaxAdminOps
    /\ adminOps' = adminOps + 1
    /\ persistedRules' = importRules(persistedRules, mapping)
    /\ UNCHANGED <<calls, engine, patternVars, runVars, hostVars>>

OracleNext ==
    \/ \E r \in Requests : Decide(r)
    \/ \E i \in 1..MaxCalls, response \in Responses : OpusResponds(i, response)
    \/ \E i \in 1..MaxCalls : OpusThrows(i)
    \/ ClearPersistedRules
    \/ \E m \in ImportMaps : ImportRules(m)

(***************************************************************************)
(* extractPattern applied again to its own result.                         *)
(***************************************************************************)
\* the pieces the targets handed to extractPattern are made of
TargetPieces ==
    <<"/", ":", "80", "src", "dist", ".ts", "\\">>

\* how many pieces a target has at most
MaxPieces ==
    4

RECURSIVE Join(_, _)
Join(pieces, i) ==
    IF i > Len(pieces) THEN "" ELSE TargetPieces[pieces[i]] \o Join(pieces, i + 1)

PatternInit ==
    /\ \E n \in 0..MaxPieces :
         \E f \in [1..n -> 1..Len(TargetPieces)] : genInput = Join(f, 1)
    /\ genTrace = <<>>

PatternIdle ==
    /\ genInput = ""
    /\ genTrace = <<>>

\* extractPattern on the target, then on each result in turn
Generalize ==
    /\ Len(genTrace) < 2
    /\ genTrace' = Append(genTrace,
                          GeneralizeTarget(IF genTrace = <<>> THEN genInput
                                           ELSE genTrace[Len(genTrace)]))
    /\ UNCHANGED <<genInput, oracleVars, runVars, hostVars>>

PatternNext ==
    Generalize

(***************************************************************************)
(* ArchitectOrchestrator.                                                  *)
(***************************************************************************)
\* null of the source, and a value that is present
Null ==
    <<>>

Some(v) ==
    <<v>>

\* the largest config.maxIterations the orchestrator is constructed with
MaxIterations ==
    3

\* the arguments of run
Task ==
    "Add a login form"

InitialContext ==
    "repo: demo"

\* what ArchitectureAnalyzer.getTypesContext returns: "" when no types file
\* was loaded, the dumped definitions otherwise
TypesContexts ==
    {"", "<types_definitions>\nnamingConventions:\n  case: snake_case\n\n</types_definitions>"}

\* config.architecture.domains: the names typed into the settings, none or
\* two of them
DomainLists ==
    {<<>>, <<"auth", "c++">>}

\* the opening sentences of the three system prompts (architectPlan,
\* editorImplement, architectEvaluate); the rest of each text is constant
ArchitectPlanPrompt ==
    "You are the Architect. Your role is to reason deeply about the task and produce a detailed implementation plan."

EditorImplementPrompt ==
    "You are the Editor. Your role is to implement the Architect's plan precisely."

ArchitectEvaluatePrompt ==
    "You are the Architect reviewing the Editor's implementation."

\* PersonaLoader.inject (lines 44-58)
inject(systemPrompt, persona, position) ==
    IF Trim(persona) = "" THEN systemPrompt
    ELSE LET wrapped == "<persona>\n" \o Trim(persona) \o "\n</persona>"
         IN  IF position = "prepend"
             THEN wrapped \o "\n\n" \o systemPrompt
             ELSE systemPrompt \o "\n\n" \o wrapped

\* injectFromConfig that injects whatever role the persona is meant for
\* (variant of injectFromConfig)
injectFromConfig_AnyRole(systemPrompt, persona, role) ==
    IF persona = Null THEN systemPrompt
    ELSE IF ~persona[1].enabled \/ persona[1].markdown = "" THEN systemPrompt
    ELSE inject(systemPrompt, persona[1].markdown, persona[1].position)

\* PersonaLoader.injectFromConfig (lines 63-77); an undefined config is Null
injectFromConfig(systemPrompt, persona, role) ==
    IF persona = Null THEN systemPrompt
    ELSE IF ~persona[1].enabled \/ persona[1].markdown = "" THEN systemPrompt
    ELSE IF persona[1].applyTo = role \/ persona[1].applyTo = "both"
    THEN inject(systemPrompt, persona[1].markdown, persona[1].position)
    ELSE systemPrompt

\* config.persona: undefined, or the persona settings
Personas ==
    {Null,
     Some([enabled |-> FALSE, markdown |-> "Be terse.", applyTo |-> "both",
           position |-> "prepend"]),
     Some([enabled |-> TRUE, markdown |-> " Be terse.\n", applyTo |-> "architect",
           position |-> "prepend"]),
     Some([enabled |-> TRUE, markdown |-> "APPROVED", applyTo |-> "editor",
           position |-> "append"]),
     Some([enabled |-> TRUE, markdown |-> "Prefer small diffs.", applyTo |-> "both",
           position |-> "append"]),
     Some([enabled |-> TRUE, markdown |-> " \n", applyTo |-> "both",
           position |-> "prepend"])}

\* the configurations the orchestrator is constructed with
Configs ==
    { c \in [maxIterations : 0..MaxIterations,
             analyzer : BOOLEAN,
             typesContext : TypesContexts,
             domains : DomainLists,
             persona : {Null},
             oracleEnabled : {FALSE},
             apiKey : {""}] :
        (~c.analyzer) => (c.typesContext = "" /\ c.domains = <<>>) }

\* the chunks a handler's stream can deliver for each role call
PlanStreams ==
    { <<[type |-> "text", text |-> "## Analysis\nadd a form"]>>,
      <<[type |-> "reasoning", reasoning |-> "which file? "],
        [type |-> "text", text |-> "## Files to Modify\n"],
        [type |-> "usage"],
        [type |-> "reasoning", reasoning |-> "login.ts"],
        [type |-> "text", text |-> "src/login.ts"]>> }

ImplementStreams ==
    { <<[type |-> "text", text |-> "<file path=\"src/auth/login.ts\">"],
        [type |-> "text", text |-> "form()</file>"]>>,
      <<[type |-> "reasoning", reasoning |-> "nothing to do"],
        [type |-> "text", text |-> "No changes."]>> }

EvaluateStreams ==
    { <<[type |-> "text", text |-> "APPROVED: matches the plan"]>>,
      <<[type |-> "reasoning", reasoning |-> "fine"],
        [type |-> "text", text |-> " \n"],
        [type |-> "text", text |-> "Approved, with notes"]>>,
      <<[type |-> "reasoning", reasoning |-> "tests missing"],
        [type |-> "text", text |-> "REVISION NEEDED: not APPROVED, add tests"]>> }

\* the streams the handler of a role call can deliver
StreamsOf(role) ==
    CASE role = "architectPlan" -> PlanStreams
      [] role = "editorImplement" -> ImplementStreams
      [] role = "architectEvaluate" -> EvaluateStreams

\* collectStreamResponse that returns at the first chunk that is neither
\* text nor reasoning (variant of collectStreamResponse)
collectStreamResponse_StopsAtOtherChunk(stream) ==
    LET stop == Least({n \in 1..Len(stream) : stream[n].type \notin {"text", "reasoning"}}
                      \cup {Len(stream) + 1})
        kept == SubSeq(stream, 1, stop - 1)
    IN [content |->
          [i \in 1..Len(kept) |->
             IF kept[i].type = "text"
             THEN [type |-> "text", text |-> kept[i].text]
             ELSE [type |-> "thinking", thinking |-> kept[i].reasoning]]]

\* collectStreamResponse: text and reasoning chunks become blocks, in order
collectStreamResponse(stream) ==
    LET kept == SelectSeq(stream, LAMBDA chunk : chunk.type \in {"text", "reasoning"})
    IN [content |->
          [i \in 1..Len(kept) |->
             IF kept[i].type = "text"
             THEN [type |-> "text", text |-> kept[i].text]
             ELSE [type |-> "thinking", thinking |-> kept[i].reasoning]]]

\* the concatenation of the blocks of one type, from block i on
RECURSIVE JoinBlocks(_, _, _)
JoinBlocks(blocks, type, i) ==
    IF i > Len(blocks) THEN ""
    ELSE (IF blocks[i].type # type THEN ""
          ELSE IF type = "thinking" THEN blocks[i].thinking
          ELSE blocks[i].text)
         \o JoinBlocks(blocks, type, i + 1)

extractThinkingAndContent(response) ==
    [thinking |-> JoinBlocks(response.content, "thinking", 1),
     content |-> JoinBlocks(response.content, "text", 1)]

\* extractContent that keeps the thinking blocks (variant of extractContent)
extractContent_KeepsThinking(response) ==
    JoinBlocks(response.content, "thinking", 1) \o JoinBlocks(response.content, "text", 1)

extractContent(response) ==
    JoinBlocks(response.content, "text", 1)

\* isComplete with the approval test removed
isComplete_Never(evaluation) ==
    FALSE

\* isComplete that looks for the token anywhere in the text (variant of
\* isComplete)
isComplete_Includes(evaluation) ==
    LET normalized == ToUpperCase(Trim(evaluation))
    IN Contains(normalized, "APPROVED")

isComplete(evaluation) ==
    LET normalized == ToUpperCase(Trim(evaluation))
    IN StartsWith(normalized, "APPROVED")

\* isComplete of each text an evaluation can hold, computed once
isCompleteOf ==
    [evaluation \in {extractThinkingAndContent(collectStreamResponse(stream)).content :
                        stream \in EvaluateStreams} |->
       isComplete(evaluation)]

\* updateContext that keeps only the latest iteration
updateContext_Replaces(context, implementation, evaluation) ==
    "## Previous Iteration\n\n### Implementation Attempt\n" \o implementation
    \o "\n\n### Architect Feedback\n" \o evaluation
    \o "\n\n---\n\nAddress the feedback above in the next iteration."

updateContext(context, implementation, evaluation) ==
    context \o "\n\n---\n\n## Previous Iteration\n\n### Implementation Attempt\n"
    \o implementation \o "\n\n### Architect Feedback\n" \o evaluation
    \o "\n\n---\n\nAddress the feedback above in the next iteration."

\* the user message of each role call
PlanMessage(task, context) ==
    "Context:\n" \o context \o "\n\nTask:\n" \o task
    \o "\n\nProvide your implementation plan."

ImplementMessage(plan, context) ==
    "Context:\n" \o context \o "\n\n---\n\nArchitect's Plan:\n" \o plan
    \o "\n\nImplement this plan now."

\* the evaluation message without the implementation (variant of
\* EvaluateMessage)
EvaluateMessage_NoImplementation(task, plan, implementation, context) ==
    "Original Task:\n" \o task \o "\n\n---\n\nPlan:\n" \o plan
    \o "\n\n---\n\nContext:\n" \o context \o "\n\nEvaluate the implementation."

EvaluateMessage(task, plan, implementation, context) ==
    "Original Task:\n" \o task \o "\n\n---\n\nPlan:\n" \o plan
    \o "\n\n---\n\nImplementation:\n" \o implementation
    \o "\n\n---\n\nContext:\n" \o context \o "\n\nEvaluate the implementation."

\* reviewArchitecture: whether the implementation holds a <file path="...">
\* ... </file> section for the analyzer to look at
HasFileSection(implementation) ==
    \E i \in 1..Len(implementation) :
        /\ StartsWithAt(implementation, i, "<file path=\"")
        /\ \E j \in (i + 13)..Len(implementation) :
             /\ StartsWithAt(implementation, j, "\">")
             /\ \A k \in (i + 12)..(j - 1) : CharAt(implementation, k) # "\""
             /\ Contains(From(implementation, j + 2), "</file>")

RECURSIVE FileSections(_, _)
\* reviewArchitecture: the <file path="...">...</file> sections of the
\* implementation from position pos on, each with its path and content
FileSections(implementation, pos) ==
    LET opens == {i \in pos..Len(implementation) :
                    /\ StartsWithAt(implementation, i, "<file path=\"")
                    /\ \E j \in (i + 13)..Len(implementation) :
                         /\ StartsWithAt(implementation, j, "\">")
                         /\ \A k \in (i + 12)..(j - 1) :
                                CharAt(implementation, k) # "\""
                         /\ Contains(From(implementation, j + 2), "</file>")}
    IN  IF opens = {} THEN <<>>
        ELSE LET i == Least(opens)
                 j == Least({q \in (i + 13)..Len(implementation) :
                               StartsWithAt(implementation, q, "\">")})
                 e == Least({q \in (j + 2)..Len(implementation) :
                               StartsWithAt(implementation, q, "</file>")})
             IN  <<[filePath |-> SubSeq(implementation, i + 12, j - 1),
                    content |-> SubSeq(implementation, j + 2, e - 1)]>>
                 \o FileSections(implementation, e + 7)

\* checkDomainMixing: the domain the file belongs to, the first configured
\* domain whose name is a directory of the path (<<>> when there is none)
FileDomain(domains, filePath) ==
    LET found == SelectSeq(domains,
                           LAMBDA d : \/ Contains(filePath, "/" \o d \o "/")
                                      \/ Contains(filePath, "\\" \o d \o "\\"))
    IN  IF found = <<>> THEN <<>> ELSE <<found[1]>>

\* checkDomainMixing: the three patterns built for another domain
DomainPatterns(domain) ==
    <<"from.*['\"].*/" \o domain \o "/",
      "import.*['\"].*/" \o domain \o "/",
      "require.*['\"].*/" \o domain \o "/">>

\* checkDomainMixing throws: the file belongs to a domain and the name of
\* another configured domain, put into new RegExp unescaped, does not compile
checkDomainMixingThrows(domains, filePath) ==
    LET fileDomain == FileDomain(domains, filePath)
    IN  /\ fileDomain # <<>>
        /\ \E n \in 1..Len(domains) :
             /\ domains[n] # fileDomain[1]
             /\ \E k \in 1..3 : ~NewRegExp(DomainPatterns(domains[n])[k]).ok

\* reviewArchitecture rejects: analyzeChange throws on one of the file
\* sections (neither analyzeChange nor reviewArchitecture has a try around
\* checkDomainMixing)
reviewArchitectureThrows(domains, implementation) ==
    LET sections == FileSections(implementation, 1)
    IN  \E n \in 1..Len(sections) :
            checkDomainMixingThrows(domains, sections[n].filePath)

\* the review updates reviewArchitecture can return for an implementation:
\* null when no file section is flagged by the analyzer
Reviews(implementation) ==
    {Null} \cup
    (IF HasFileSection(implementation)
     THEN {Some([type |-> "architecture_review",
                 message |-> "Architectural concerns detected:\n\nsrc/auth/login.ts:\n  Signals: Directory src/auth has 16 files (threshold: 15)\n  Recommendation: Consider extracting to a separate module.",
                 options |-> <<"Proceed with current implementation",
                               "Revise to address concerns">>])}
     ELSE {})

\* the loop test of run with <= in place of <
LoopContinues_OneMore(currentIteration, maxIterations) ==
    currentIteration <= maxIterations

\* the loop test of run
LoopContinues(currentIteration, maxIterations) ==
    currentIteration < maxIterations

\* the constants plan, implementation and evaluation of the loop body, unset
NoLocals ==
    [plan |-> Null, implementation |-> Null, evaluation |-> Null]

\* the consumer of run before it did anything: it has not been asked to
\* abort and holds no getState result
NoHost ==
    [abort |-> FALSE, reads |-> 0, snapshot |-> Null]

\* this.state as the constructor leaves it (lines 34-41)
NewState ==
    [phase |-> "planning", currentIteration |-> 0, plan |-> Null,
     implementation |-> Null, evaluation |-> Null, thinkingContent |-> Null]

\* an orchestrator that was constructed, with no run made
RunFresh ==
    /\ host = NoHost
    /\ baseline = Null
    /\ state = NewState
    /\ codebaseContext = ""
    /\ locals = NoLocals
    /\ pc = "idle"
    /\ updates = <<>>
    /\ roleCalls = <<>>
    /\ approvals = <<>>

RunInit ==
    /\ config \in Configs
    /\ RunFresh

\* an orchestrator that is constructed and never run
RunIdle ==
    /\ RunInit
    /\ config = [maxIterations |-> MaxIterations, analyzer |-> FALSE,
                 typesContext |-> "", domains |-> <<>>, persona |-> Null,
                 oracleEnabled |-> FALSE, apiKey |-> ""]

\* the planning phase update numbered before the counter is incremented
\* (variant of EnterIteration)
EnterIteration_StaleNumber(context, emitted) ==
    /\ codebaseContext' = context
    /\ locals' = NoLocals
    /\ IF LoopContinues(state.currentIteration, config.maxIterations)
       THEN /\ state' = [state EXCEPT !.currentIteration = @ + 1,
                                      !.phase = "planning"]
            /\ updates' = Append(emitted,
                                 [type |-> "phase", phase |-> "planning",
                                  iteration |-> state.currentIteration])
            /\ pc' = "yield phase planning"
       ELSE /\ state' = [state EXCEPT !.phase = "failed"]
            /\ updates' = Append(emitted,
                                 [type |-> "max_iterations",
                                  iterations |-> state.currentIteration])
            /\ pc' = "yield max_iterations"

\* the top of the while loop, reached with the given context and updates:
\* either the next iteration begins and yields its planning phase, or the
\* loop is left and max_iterations is yielded
EnterIteration(context, emitted) ==
    /\ codebaseContext' = context
    /\ locals' = NoLocals
    /\ IF LoopContinues(state.currentIteration, config.maxIterations)
       THEN /\ state' = [state EXCEPT !.currentIteration = @ + 1,
                                      !.phase = "planning"]
            /\ updates' = Append(emitted,
                                 [type |-> "phase", phase |-> "planning",
                                  iteration |-> state.currentIteration + 1])
            /\ pc' = "yield phase planning"
       ELSE /\ state' = [state EXCEPT !.phase = "failed"]
            /\ updates' = Append(emitted,
                                 [type |-> "max_iterations",
                                  iterations |-> state.currentIteration])
            /\ pc' = "yield max_iterations"

\* run(task, codebaseContext) is called: the generator exists, its body has
\* not started
Run ==
    /\ pc = "idle"
    /\ pc' = "start"
    /\ codebaseContext' = InitialContext
    /\ UNCHANGED <<config, state, locals, updates, roleCalls,
                   approvals, oracleVars, patternVars, hostVars>>

\* the first next(): types injection, then the top of the loop
Start ==
    /\ pc = "start"
    /\ EnterIteration(IF config.analyzer /\ config.typesContext # ""
                      THEN config.typesContext \o "\n\n" \o codebaseContext
                      ELSE codebaseContext,
                      updates)
    /\ UNCHANGED <<config, roleCalls, approvals, oracleVars, patternVars, hostVars>>

\* resumed after the planning phase update: architectPlan is called
CallArchitectPlan ==
    /\ pc = "yield phase planning"
    /\ pc' = "await architectPlan"
    /\ roleCalls' = Append(roleCalls,
                           [role |-> "architectPlan", handler |-> "architect",
                            iteration |-> state.currentIteration,
                            context |-> codebaseContext,
                            systemPrompt |-> injectFromConfig(ArchitectPlanPrompt,
                                                              config.persona,
                                                              "architect"),
                            message |-> PlanMessage(Task, codebaseContext),
                            chunks |-> <<>>, returned |-> FALSE])
    /\ UNCHANGED <<config, state, codebaseContext, locals, updates,
                   approvals, oracleVars, patternVars, hostVars>>

\* for await (const chunk of stream), lines 403-411: the chunks received so
\* far are the beginning of the stream the handler delivers
Remaining(made, stream) ==
    LET got == made[Len(made)].chunks
    IN  /\ Len(got) <= Len(stream)
        /\ \A n \in 1..Len(got) : got[n] = stream[n]

\* the loop of collectStreamResponse ran to the end of the stream
Drained(made, stream) ==
    [made EXCEPT ![Len(made)].chunks = stream, ![Len(made)].returned = TRUE]

\* one more chunk of the stream of the call in flight arrives (one turn of
\* the loop of collectStreamResponse, lines 403-411)
ChunkArrives(stream) ==
    /\ pc \in {"await architectPlan", "await editorImplement",
               "await architectEvaluate"}
    /\ stream \in StreamsOf(roleCalls[Len(roleCalls)].role)
    /\ Remaining(roleCalls, stream)
    /\ Len(roleCalls[Len(roleCalls)].chunks) < Len(stream)
    /\ roleCalls' = [roleCalls EXCEPT ![Len(roleCalls)].chunks =
                         Append(@, stream[Len(@) + 1])]
    /\ UNCHANGED <<config, state, codebaseContext, locals, pc, updates,
                   approvals, oracleVars, patternVars, hostVars>>

\* architectPlan resolves: the plan is stored, then thinking (if any) or the
\* plan is yielded
ArchitectPlanResolves(stream) ==
    /\ pc = "await architectPlan"
    /\ Remaining(roleCalls, stream)
    /\ roleCalls' = Drained(roleCalls, stream)
    /\ LET plan == extractThinkingAndContent(collectStreamResponse(stream))
       IN /\ locals' = [locals EXCEPT !.plan = Some(plan)]
          /\ state' = [state EXCEPT !.plan = Some(plan.content),
                                    !.thinkingContent = Some(plan.thinking)]
          /\ IF plan.thinking # ""
             THEN /\ updates' = Append(updates, [type |-> "thinking",
                                                 content |-> plan.thinking])
                  /\ pc' = "yield thinking of plan"
             ELSE /\ updates' = Append(updates, [type |-> "plan",
                                                 content |-> plan.content,
                                                 thinking |-> plan.thinking])
                  /\ pc' = "yield plan"
    /\ UNCHANGED <<config, codebaseContext, approvals, oracleVars, patternVars, hostVars>>

\* resumed after the thinking update of the plan
YieldPlan ==
    /\ pc = "yield thinking of plan"
    /\ updates' = Append(updates, [type |-> "plan",
                                   content |-> locals.plan[1].content,
                                   thinking |-> locals.plan[1].thinking])
    /\ pc' = "yield plan"
    /\ UNCHANGED <<config, state, codebaseContext, locals, roleCalls,
                   approvals, oracleVars, patternVars, hostVars>>

\* resumed after the plan update
BeginImplementing ==
    /\ pc = "yield plan"
    /\ state' = [state EXCEPT !.phase = "implementing"]
    /\ updates' = Append(updates, [type |-> "phase", phase |-> "implementing",
                                   iteration |-> state.currentIteration])
    /\ pc' = "yield phase implementing"
    /\ UNCHANGED <<config, codebaseContext, locals, roleCalls,
                   approvals, oracleVars, patternVars, hostVars>>

CallEditorImplement ==
    /\ pc = "yield phase implementing"
    /\ pc' = "await editorImplement"
    /\ roleCalls' = Append(roleCalls,
                           [role |-> "editorImplement", handler |-> "editor",
                            iteration |-> state.currentIteration,
                            context |-> codebaseContext,
                            systemPrompt |-> injectFromConfig(EditorImplementPrompt,
                                                              config.persona,
                                                              "editor"),
                            message |-> ImplementMessage(locals.plan[1].content,
                                                         codebaseContext),
                            chunks |-> <<>>, returned |-> FALSE])
    /\ UNCHANGED <<config, state, codebaseContext, locals, updates,
                   approvals, oracleVars, patternVars, hostVars>>

EditorImplementResolves(stream) ==
    /\ pc = "await editorImplement"
    /\ Remaining(roleCalls, stream)
    /\ roleCalls' = Drained(roleCalls, stream)
    /\ LET implementation == extractContent(collectStreamResponse(stream))
       IN /\ locals' = [locals EXCEPT !.implementation = Some(implementation)]
          /\ state' = [state EXCEPT !.implementation = Some(implementation)]
          /\ updates' = Append(updates, [type |-> "implementation",
                                         content |-> implementation])
    /\ pc' = "yield implementation"
    /\ UNCHANGED <<config, codebaseContext, approvals, oracleVars, patternVars, hostVars>>

\* the evaluating phase begun without its phase update (variant of
\* EnterEvaluating)
EnterEvaluating_Silent ==
    /\ state' = [state EXCEPT !.phase = "evaluating"]
    /\ updates' = updates
    /\ pc' = "yield phase evaluating"

\* the evaluating phase begins and its update is yielded
EnterEvaluating ==
    /\ state' = [state EXCEPT !.phase = "evaluating"]
    /\ updates' = Append(updates, [type |-> "phase", phase |-> "evaluating",
                                   iteration |-> state.currentIteration])
    /\ pc' = "yield phase evaluating"

\* resumed after the implementation update: with an analyzer the review is
\* awaited, without one the evaluating phase begins
AfterImplementation ==
    /\ pc = "yield implementation"
    /\ IF config.analyzer
       THEN /\ pc' = "await reviewArchitecture"
            /\ UNCHANGED <<state, updates>>
       ELSE EnterEvaluating
    /\ UNCHANGED <<config, codebaseContext, locals, roleCalls,
                   approvals, oracleVars, patternVars, hostVars>>

\* reviewArchitecture resolves: a review is yielded, null is not
ReviewArchitectureResolves(review) ==
    /\ pc = "await reviewArchitecture"
    /\ ~reviewArchitectureThrows(config.domains, locals.implementation[1])
    /\ review \in Reviews(locals.implementation[1])
    /\ IF review # Null
       THEN /\ updates' = Append(updates, review[1])
            /\ pc' = "yield architecture_review"
            /\ UNCHANGED state
       ELSE EnterEvaluating
    /\ UNCHANGED <<config, codebaseContext, locals, roleCalls,
                   approvals, oracleVars, patternVars, hostVars>>

\* reviewArchitecture rejects: run has no try around it and throws
ReviewArchitectureRejects ==
    /\ pc = "await reviewArchitecture"
    /\ reviewArchitectureThrows(config.domains, locals.implementation[1])
    /\ pc' = "reviewArchitecture threw"
    /\ UNCHANGED <<config, state, codebaseContext, locals, updates, roleCalls,
                   approvals, oracleVars, patternVars, hostVars>>

\* resumed after the review update
BeginEvaluating ==
    /\ pc = "yield architecture_review"
    /\ EnterEvaluating
    /\ UNCHANGED <<config, codebaseContext, locals, roleCalls,
                   approvals, oracleVars, patternVars, hostVars>>

CallArchitectEvaluate ==
    /\ pc = "yield phase evaluating"
    /\ pc' = "await architectEvaluate"
    /\ roleCalls' = Append(roleCalls,
                           [role |-> "architectEvaluate", handler |-> "architect",
                            iteration |-> state.currentIteration,
                            context |-> codebaseContext,
                            systemPrompt |-> injectFromConfig(ArchitectEvaluatePrompt,
                                                              config.persona,
                                                              "architect"),
                            message |-> EvaluateMessage(Task,
                                                        locals.plan[1].content,
                                                        locals.implementation[1],
                                                        codebaseContext),
                            chunks |-> <<>>, returned |-> FALSE])
    /\ UNCHANGED <<config, state, codebaseContext, locals, updates,
                   approvals, oracleVars, patternVars, hostVars>>

ArchitectEvaluateResolves(stream) ==
    /\ pc = "await architectEvaluate"
    /\ Remaining(roleCalls, stream)
    /\ roleCalls' = Drained(roleCalls, stream)
    /\ LET evaluation == extractThinkingAndContent(collectStreamResponse(stream))
       IN /\ locals' = [locals EXCEPT !.evaluation = Some(evaluation)]
          /\ state' = [state EXCEPT !.evaluation = Some(evaluation.content)]
          /\ IF evaluation.thinking # ""
             THEN /\ updates' = Append(updates, [type |-> "thinking",
                                                 content |-> evaluation.thinking])
                  /\ pc' = "yield thinking of evaluation"
             ELSE /\ updates' = Append(updates, [type |-> "evaluation",
                                                 content |-> evaluation.content,
                                                 thinking |-> evaluation.thinking])
                  /\ pc' = "yield evaluation"
    /\ UNCHANGED <<config, codebaseContext, approvals, oracleVars, patternVars, hostVars>>

\* resumed after the thinking update of the evaluation
YieldEvaluation ==
    /\ pc = "yield thinking of evaluation"
    /\ updates' = Append(updates, [type |-> "evaluation",
                                   content |-> locals.evaluation[1].content,
                                   thinking |-> locals.evaluation[1].thinking])
    /\ pc' = "yield evaluation"
    /\ UNCHANGED <<config, state, codebaseContext, locals, roleCalls,
                   approvals, oracleVars, patternVars, hostVars>>

\* resumed after the evaluation update: complete is yielded, or the context
\* is updated and the top of the loop is reached
AfterEvaluation ==
    /\ pc = "yield evaluation"
    /\ IF isCompleteOf[locals.evaluation[1].content]
       THEN /\ state' = [state EXCEPT !.phase = "complete"]
            /\ updates' = Append(updates, [type |-> "complete",
                                           iterations |-> state.currentIteration])
            /\ pc' = "yield complete"
            /\ UNCHANGED <<codebaseContext, locals>>
       ELSE EnterIteration(updateContext(codebaseContext,
                                         locals.implementation[1],
                                         locals.evaluation[1].content),
                           updates)
    /\ UNCHANGED <<config, roleCalls, approvals, oracleVars, patternVars, hostVars>>

\* resumed after complete or max_iterations: the generator returns
Return ==
    /\ pc \in {"yield complete", "yield max_iterations"}
    /\ pc' = "returned"
    /\ UNCHANGED <<config, state, codebaseContext, locals, updates, roleCalls,
                   approvals, oracleVars, patternVars, hostVars>>

\* a rejected role call issued again (variant of OnRoleCallRejected)
OnRoleCallRejected_Retries(position) ==
    CASE position = "await architectPlan" -> "yield phase planning"
      [] position = "await editorImplement" -> "yield phase implementing"
      [] position = "await architectEvaluate" -> "yield phase evaluating"

\* where run goes when the role call awaited at a position rejects: neither
\* run nor collectStreamResponse has a try, so the generator throws
OnRoleCallRejected(position) ==
    "threw"

\* a rejected role call treated as an exhausted budget: phase failed and
\* max_iterations yielded (variant of RoleCallRejects)
RoleCallRejects_Fails ==
    /\ pc \in {"await architectPlan", "await editorImplement",
               "await architectEvaluate"}
    /\ state' = [state EXCEPT !.phase = "failed"]
    /\ updates' = Append(updates, [type |-> "max_iterations",
                                   iterations |-> state.currentIteration])
    /\ pc' = "yield max_iterations"
    /\ UNCHANGED <<config, codebaseContext, locals, roleCalls,
                   approvals, oracleVars, patternVars, hostVars>>

\* a role call rejects (the handler's stream throws): run throws
RoleCallRejects ==
    /\ pc \in {"await architectPlan", "await editorImplement",
               "await architectEvaluate"}
    /\ pc' = OnRoleCallRejected(pc)
    /\ UNCHANGED <<config, state, codebaseContext, locals, updates, roleCalls,
                   approvals, oracleVars, patternVars, hostVars>>

RunNext ==
    \/ Run
    \/ Start
    \/ CallArchitectPlan
    \/ \E stream \in PlanStreams : ArchitectPlanResolves(stream)
    \/ YieldPlan
    \/ BeginImplementing
    \/ CallEditorImplement
    \/ \E stream \in ImplementStreams : EditorImplementResolves(stream)
    \/ AfterImplementation
    \/ \E review \in UNION {Reviews(i) : i \in {extractContent(collectStreamResponse(s)) : s \in ImplementStreams}} :
         ReviewArchitectureResolves(review)
    \/ BeginEvaluating
    \/ CallArchitectEvaluate
    \/ \E stream \in EvaluateStreams : ArchitectEvaluateResolves(stream)
    \/ YieldEvaluation
    \/ AfterEvaluation
    \/ Return
    \/ RoleCallRejects
    \/ ReviewArchitectureRejects

(***************************************************************************)
(* Specifications.                                                         *)
(***************************************************************************)
InitOracle ==
    OracleInit /\ PatternIdle /\ RunIdle

SpecOracle ==
    InitOracle /\ [][OracleNext]_vars

InitPattern ==
    OracleInit /\ PatternInit /\ RunIdle

SpecPattern ==
    InitPattern /\ [][PatternNext]_vars

InitRun ==
    OracleInit /\ PatternIdle /\ RunInit

\* the steps of a run whose consumer keeps asking for the next update and
\* whose role calls and reviews return
RunProgress ==
    \/ Run
    \/ Start
    \/ CallArchitectPlan
    \/ \E stream \in PlanStreams : ArchitectPlanResolves(stream)
    \/ YieldPlan
    \/ BeginImplementing
    \/ CallEditorImplement
    \/ \E stream \in ImplementStreams : EditorImplementResolves(stream)
    \/ AfterImplementation
    \/ \E review \in {Null} : ReviewArchitectureResolves(review)
    \/ BeginEvaluating
    \/ CallArchitectEvaluate
    \/ \E stream \in EvaluateStreams : ArchitectEvaluateResolves(stream)
    \/ YieldEvaluation
    \/ AfterEvaluation
    \/ Return

\* run, consumed to its end: a step of RunProgress that stays possible is
\* eventually taken
SpecRunFair ==
    InitRun /\ [][RunNext]_vars /\ WF_vars(RunProgress)

\* the requests decided by an engine with custom patterns
ConstructRequests ==
    {[action |-> "write",   target |-> "/project/src/app.ts"],
     [action |-> "execute", target |-> "rm -rf /"],
     [action |-> "delete",  target |-> "/data/1/cache"]}

ConstructNext ==
    \/ Construct
    \/ \E r \in ConstructRequests : Decide(r)

InitConstruct ==
    ConstructInit /\ PatternIdle /\ RunIdle

SpecConstruct ==
    InitConstruct /\ [][ConstructNext]_vars

SpecRun ==
    InitRun /\ [][RunNext]_vars

(***************************************************************************)
(* ArchitectOrchestrator.requestApproval.                                  *)
(***************************************************************************)
\* how many requestApproval calls a behaviour makes
MaxApprovals ==
    1

\* config.maxIterations of the orchestrator whose host requests approvals
ApprovalIterations ==
    1

\* this.approvalOracle = null (lines 19, 67-69): the oracle is not enabled
\* or there is no API key
AbsentEngine ==
    [status |-> "absent",
     customAllowPatterns |-> <<>>, customDenyPatterns |-> <<>>,
     allow |-> <<>>, deny |-> <<>>]

\* the requests the host asks approval for
ApprovalRequests ==
    {[action |-> "write",   target |-> "/project/src/app.ts"],
     [action |-> "execute", target |-> "rm -rf /"],
     [action |-> "delete",  target |-> "/data/1/cache"]}

\* what the adjudicator answers while approvals are requested
ApprovalResponses ==
    {[content |-> <<[type |-> "text",
                     text |-> "{\"allow\":false,\"persist\":\"always\",\"reasoning\":\"dangerous\"}"]>>],
     [content |-> <<[type |-> "text",
                     text |-> "{\"allow\":true,\"persist\":\"once\",\"reasoning\":\"one-off\"}"]>>]}

\* the decision of requestApproval without an oracle, as a denial (variant
\* of OracleDisabled)
OracleDisabled_Denies ==
    [allow |-> FALSE, persist |-> "once", reasoning |-> "Oracle disabled"]

\* the decision of requestApproval without an oracle (line 189)
OracleDisabled ==
    [allow |-> TRUE, persist |-> "once", reasoning |-> "Oracle disabled"]

\* requestApproval(action, target, context) (lines 182-198): without an
\* oracle the promise resolves with OracleDisabled; with one, decide is
\* called with the request and its promise is returned
RequestApproval(request) ==
    /\ Len(approvals) < MaxApprovals
    /\ engine.status \in {"absent", "constructed"}
    /\ IF engine.status = "absent"
       THEN /\ approvals' = Append(approvals,
                                   [request |-> request, phase |-> state.phase,
                                    call |-> 0, decision |-> <<OracleDisabled>>])
            /\ UNCHANGED <<persistedRules, calls>>
       ELSE LET out == decide(persistedRules, request)
            IN  /\ persistedRules' = out.rules
                /\ calls' = Append(calls, IF out.escalate THEN Suspended(request)
                                          ELSE Returned(request, out.decision))
                /\ approvals' = Append(approvals,
                                       [request |-> request, phase |-> state.phase,
                                        call |-> Len(calls) + 1, decision |-> <<>>])
    /\ UNCHANGED <<adminOps, engine, patternVars, hostVars,
                   config, state, codebaseContext, locals, pc, updates, roleCalls>>

\* the promise requestApproval returned is the promise of decide: it
\* settles with the decision of that decide call
ApprovalSettles(j) ==
    /\ j \in 1..Len(approvals)
    /\ approvals[j].call # 0
    /\ approvals[j].decision = <<>>
    /\ calls[approvals[j].call].decision # <<>>
    /\ approvals' = [approvals EXCEPT ![j].decision = calls[approvals[j].call].decision]
    /\ UNCHANGED <<oracleVars, patternVars, hostVars,
                   config, state, codebaseContext, locals, pc, updates, roleCalls>>

ApprovalNext ==
    \/ Run
    \/ Start
    \/ CallArchitectPlan
    \/ \E stream \in {s \in PlanStreams : Len(s) > 1} : ArchitectPlanResolves(stream)
    \/ YieldPlan
    \/ BeginImplementing
    \/ CallEditorImplement
    \/ \E stream \in {s \in ImplementStreams : s[1].type = "text"} :
         EditorImplementResolves(stream)
    \/ AfterImplementation
    \/ \E review \in UNION {Reviews(i) : i \in {extractContent(collectStreamResponse(s)) : s \in ImplementStreams}} :
         ReviewArchitectureResolves(review)
    \/ BeginEvaluating
    \/ CallArchitectEvaluate
    \/ \E stream \in {s \in EvaluateStreams : Len(s) > 1} :
         ArchitectEvaluateResolves(stream)
    \/ YieldEvaluation
    \/ AfterEvaluation
    \/ Return
    \/ RoleCallRejects
    \/ ReviewArchitectureRejects
    \/ \E r \in ApprovalRequests : RequestApproval(r)
    \/ \E j \in 1..MaxApprovals : ApprovalSettles(j)
    \/ \E i \in 1..MaxApprovals, response \in ApprovalResponses : OpusResponds(i, response)
    \/ \E i \in 1..MaxApprovals : OpusThrows(i)

\* the apiKey argument of the constructor: empty or not
ApiKeys ==
    {"", "sk-ant-key"}

\* the configurations and API keys of the orchestrators whose host requests
\* approvals (no types file); oracleEnabled is config.approvalOracle?.enabled
ApprovalConfigs ==
    { c \in [maxIterations : {ApprovalIterations},
             analyzer : BOOLEAN,
             typesContext : {""},
             domains : DomainLists,
             persona : {Null},
             oracleEnabled : BOOLEAN,
             apiKey : ApiKeys] :
        (~c.analyzer) => (c.domains = <<>>) }

\* this.approvalOracle as the constructor leaves it (lines 66-69): an engine
\* when config.approvalOracle?.enabled && apiKey, none otherwise
NewApprovalOracle(c) ==
    IF c.oracleEnabled /\ c.apiKey # "" THEN DefaultEngine ELSE AbsentEngine

\* an orchestrator constructed with or without an oracle and with or
\* without an analyzer (no types file)
InitApproval ==
    /\ persistedRules = <<>>
    /\ calls = <<>>
    /\ adminOps = 0
    /\ twin = NoTwin
    /\ PatternIdle
    /\ RunFresh
    /\ config \in ApprovalConfigs
    /\ engine = NewApprovalOracle(config)

SpecApproval ==
    InitApproval /\ [][ApprovalNext]_vars

(***************************************************************************)
(***************************************************************************)
(* ArchitectOrchestrator.getState and what its caller does with the        *)
(* result.  An object is modelled by the reference held to it (ref) and    *)
(* its fields; every field of ArchitectState is a string, a number or      *)
(* null.                                                                   *)
(***************************************************************************)
\* how many getState calls a behaviour makes
MaxReads ==
    2

\* getState handing out this.state itself (variant of getState)
getState_ReturnsState(current) ==
    [ref |-> "this.state", fields |-> current]

\* getState: return { ...this.state }, a new object with the same fields
getState(current) ==
    [ref |-> "copy", fields |-> current]

\* what the caller may assign to a field of the object it holds
Assignments ==
    {[field |-> "phase", value |-> "complete"],
     [field |-> "currentIteration", value |-> 99],
     [field |-> "plan", value |-> Some("tampered")]}

\* getState is called; the generator is suspended (at a yield or at an
\* await) or not started, and nothing of the orchestrator changes
GetState ==
    /\ host.reads < MaxReads
    /\ host' = [host EXCEPT !.reads = @ + 1,
                            !.snapshot = Some(getState(state))]
    /\ UNCHANGED <<runVars, oracleVars, patternVars, twin, baseline>>

\* the caller assigns to a field of the object getState returned; the
\* assignment reaches this.state only when that object is this.state
MutateSnapshot(a) ==
    /\ host.snapshot # Null
    /\ host.snapshot[1].fields[a.field] # a.value
    /\ host' = [host EXCEPT !.snapshot[1].fields[a.field] = a.value]
    /\ state' = IF host.snapshot[1].ref = "this.state"
                THEN [state EXCEPT ![a.field] = a.value]
                ELSE state
    /\ UNCHANGED <<config, codebaseContext, locals, pc, updates, roleCalls,
                   approvals, oracleVars, patternVars, twin, baseline>>

\* how many passes the runs observed through getState are allowed
SnapshotIterations ==
    1

SnapshotNext ==
    \/ RunNext
    \/ GetState
    \/ \E a \in Assignments : MutateSnapshot(a)

InitSnapshot ==
    /\ OracleInit
    /\ PatternIdle
    /\ RunInit
    /\ config.maxIterations = SnapshotIterations

SpecSnapshot ==
    InitSnapshot /\ [][SnapshotNext]_vars

(***************************************************************************)
(* The consumer of run: for await (const update of orchestrator.run(...))  *)
(* { if (this.taskState.abort) break; ... }.  The abort flag is read when  *)
(* an update has arrived and nowhere else; break makes the loop call the   *)
(* generator's return(), which ends the generator at the yield where it is *)
(* suspended.                                                              *)
(***************************************************************************)
\* the positions at which the generator is suspended at a yield, its update
\* handed to the consumer
YieldPositions ==
    {"yield phase planning", "yield thinking of plan", "yield plan",
     "yield phase implementing", "yield implementation",
     "yield architecture_review", "yield phase evaluating",
     "yield thinking of evaluation", "yield evaluation",
     "yield complete", "yield max_iterations"}

\* a consumer that gives up wherever the generator is (variant of CanBreakAt)
CanBreakAt_Anywhere(position) ==
    position \notin {"idle", "returned", "threw", "reviewArchitecture threw",
                     "cancelled"}

\* where the body of the loop, and so its abort test, runs: an update has
\* arrived
CanBreakAt(position) ==
    position \in YieldPositions

\* this.taskState.abort is set; it may happen at any moment
Abort ==
    /\ ~host.abort
    /\ host' = [host EXCEPT !.abort = TRUE]
    /\ UNCHANGED <<runVars, oracleVars, patternVars, twin, baseline>>

\* the consumer finds abort set on an update and breaks: the generator ends
\* where it is
HostBreaks ==
    /\ host.abort
    /\ CanBreakAt(pc)
    /\ pc' = "cancelled"
    /\ UNCHANGED <<config, state, codebaseContext, locals, updates, roleCalls,
                   approvals, oracleVars, patternVars, hostVars>>

\* the consumer finds abort not set, handles the update and asks for the next
HostResumes ==
    /\ ~host.abort
    /\ \/ CallArchitectPlan
       \/ YieldPlan
       \/ BeginImplementing
       \/ CallEditorImplement
       \/ AfterImplementation
       \/ BeginEvaluating
       \/ CallArchitectEvaluate
       \/ YieldEvaluation
       \/ AfterEvaluation
       \/ Return

\* what goes on while the generator is not suspended at a yield: the loop
\* starts the generator, and the awaited calls end, whatever abort is
CancelNext ==
    \/ Abort
    \/ HostBreaks
    \/ HostResumes
    \/ Run
    \/ Start
    \/ \E stream \in PlanStreams : ArchitectPlanResolves(stream)
    \/ \E stream \in ImplementStreams : EditorImplementResolves(stream)
    \/ \E review \in UNION {Reviews(i) : i \in {extractContent(collectStreamResponse(s)) : s \in ImplementStreams}} :
         ReviewArchitectureResolves(review)
    \/ \E stream \in EvaluateStreams : ArchitectEvaluateResolves(stream)
    \/ RoleCallRejects
    \/ ReviewArchitectureRejects

InitCancel ==
    OracleInit /\ PatternIdle /\ RunInit

SpecCancel ==
    InitCancel /\ [][CancelNext]_vars

(***************************************************************************)
(* Two engines side by side.  Both are built from the same configuration   *)
(* (the rule lists of `engine`) and start from the same cache; each        *)
(* request is handed to both, and each engine's adjudicator call is        *)
(* answered on its own.                                                    *)
(***************************************************************************)
\* the cache contents the two engines start from
TwinCaches ==
    {<<>>} \cup ImportMaps

\* the same request is handed to both engines once neither has a call in
\* flight (decide, lines 229-258, on each); twin.same records whether the
\* two caches were identical at that moment
TwinDecide(request) ==
    /\ engine.status = "constructed"
    /\ Len(calls) < MaxCalls
    /\ Len(twin.calls) = Len(calls)
    /\ \A i \in 1..Len(calls) : calls[i].decision # <<>> /\ twin.calls[i].decision # <<>>
    /\ LET out == decide(persistedRules, request)
           other == decide(twin.rules, request)
       IN  /\ persistedRules' = out.rules
           /\ calls' = Append(calls, IF out.escalate THEN Suspended(request)
                                     ELSE Returned(request, out.decision))
           /\ twin' = [rules |-> other.rules,
                       calls |-> Append(twin.calls,
                                        IF other.escalate THEN Suspended(request)
                                        ELSE Returned(request, other.decision)),
                       same |-> Append(twin.same, persistedRules = twin.rules)]
    /\ UNCHANGED <<adminOps, engine, patternVars, runVars, host, baseline>>

\* the adjudicator answers call i of the second engine
TwinOpusResponds(i, response) ==
    /\ i \in 1..Len(twin.calls)
    /\ twin.calls[i] = Suspended(twin.calls[i].request)
    /\ LET out == askOpusResolved(twin.rules, PatternTable[twin.calls[i].request], response)
       IN  twin' = [twin EXCEPT !.rules = out.rules,
                                !.calls[i] = Resolved(twin.calls[i].request, out.decision)]
    /\ UNCHANGED <<oracleVars, patternVars, runVars, host, baseline>>

\* the adjudicator call of call i of the second engine throws
TwinOpusThrows(i) ==
    /\ i \in 1..Len(twin.calls)
    /\ twin.calls[i] = Suspended(twin.calls[i].request)
    /\ LET out == askOpusRejected(twin.rules, PatternTable[twin.calls[i].request])
       IN  twin' = [twin EXCEPT !.rules = out.rules,
                                !.calls[i] = Resolved(twin.calls[i].request, out.decision)]
    /\ UNCHANGED <<oracleVars, patternVars, runVars, host, baseline>>

TwinNext ==
    \/ \E request \in Requests : TwinDecide(request)
    \/ \E i \in 1..MaxCalls, response \in Responses : OpusResponds(i, response)
    \/ \E i \in 1..MaxCalls : OpusThrows(i)
    \/ \E i \in 1..MaxCalls, response \in Responses : TwinOpusResponds(i, response)
    \/ \E i \in 1..MaxCalls : TwinOpusThrows(i)

InitTwin ==
    /\ persistedRules \in TwinCaches
    /\ calls = <<>>
    /\ adminOps = 0
    /\ engine = DefaultEngine
    /\ twin = [rules |-> persistedRules, calls |-> <<>>, same |-> <<>>]
    /\ PatternIdle
    /\ RunIdle

SpecTwin ==
    InitTwin /\ [][TwinNext]_vars

(***************************************************************************)
(* Two runs that differ in the persona settings only.  A run is made to    *)
(* its end; then an orchestrator with other persona settings is given the  *)
(* same task and its handlers deliver the same streams, call by call.      *)
(***************************************************************************)
\* config.maxIterations of the orchestrators whose runs are compared
PersonaIterations ==
    1

\* where a generator has ended
Ended ==
    {"returned", "threw"}

\* the first run has ended; an orchestrator constructed with the same
\* configuration but for the persona is given the same task
RunAgain(persona) ==
    /\ baseline = Null
    /\ pc \in Ended
    /\ persona # config.persona
    /\ baseline' = Some([config |-> config, state |-> state, pc |-> pc,
                         updates |-> updates, roleCalls |-> roleCalls])
    /\ config' = [config EXCEPT !.persona = persona]
    /\ state' = NewState
    /\ codebaseContext' = ""
    /\ locals' = NoLocals
    /\ pc' = "idle"
    /\ updates' = <<>>
    /\ roleCalls' = <<>>
    /\ UNCHANGED <<approvals, oracleVars, patternVars, host, twin>>

\* the call in flight is answered as the same call of the earlier run was:
\* by this stream
SameStream(stream) ==
    baseline # Null =>
        /\ Len(roleCalls) \in 1..Len(baseline[1].roleCalls)
        /\ baseline[1].roleCalls[Len(roleCalls)].returned
        /\ baseline[1].roleCalls[Len(roleCalls)].chunks = stream

\* the call in flight is answered as the same call of the earlier run was:
\* by a rejection
SameRejection ==
    baseline # Null =>
        /\ Len(roleCalls) \in 1..Len(baseline[1].roleCalls)
        /\ ~baseline[1].roleCalls[Len(roleCalls)].returned

PersonaNext ==
    \/ Run
    \/ Start
    \/ CallArchitectPlan
    \/ \E stream \in PlanStreams : SameStream(stream) /\ ArchitectPlanResolves(stream)
    \/ YieldPlan
    \/ BeginImplementing
    \/ CallEditorImplement
    \/ \E stream \in ImplementStreams : SameStream(stream) /\ EditorImplementResolves(stream)
    \/ AfterImplementation
    \/ CallArchitectEvaluate
    \/ \E stream \in EvaluateStreams : SameStream(stream) /\ ArchitectEvaluateResolves(stream)
    \/ YieldEvaluation
    \/ AfterEvaluation
    \/ Return
    \/ SameRejection /\ RoleCallRejects
    \/ \E persona \in Personas : RunAgain(persona)

InitPersona ==
    /\ OracleInit
    /\ PatternIdle
    /\ RunFresh
    /\ \E persona \in Personas :
           config = [maxIterations |-> PersonaIterations, analyzer |-> FALSE,
                     typesContext |-> "", domains |-> <<>>, persona |-> persona,
                     oracleEnabled |-> FALSE, apiKey |-> ""]

SpecPersona ==
    InitPersona /\ [][PersonaNext]_vars

(***************************************************************************)
(* Runs whose streams are delivered chunk by chunk.                        *)
(***************************************************************************)
DrainNext ==
    \/ RunNext
    \/ \E stream \in PlanStreams \cup ImplementStreams \cup EvaluateStreams :
         ChunkArrives(stream)

SpecDrain ==
    InitRun /\ [][DrainNext]_vars

(***************************************************************************)
(* run called a second time on the same orchestrator.                      *)
(***************************************************************************)
\* config.maxIterations of the orchestrators run twice
RerunIterations ==
    2

\* run(task, codebaseContext) is called again once the first generator has
\* returned: a new generator over the same this.state, which run does not
\* reset; what the first run left is kept in baseline
RunOnceMore ==
    /\ baseline = Null
    /\ pc = "returned"
    /\ baseline' = Some([config |-> config, state |-> state, pc |-> pc,
                         updates |-> updates, roleCalls |-> roleCalls])
    /\ pc' = "start"
    /\ codebaseContext' = InitialContext
    /\ locals' = NoLocals
    /\ updates' = <<>>
    /\ roleCalls' = <<>>
    /\ UNCHANGED <<config, state, approvals, oracleVars, patternVars, host, twin>>

RerunNext ==
    \/ Run
    \/ Start
    \/ CallArchitectPlan
    \/ \E stream \in PlanStreams : ArchitectPlanResolves(stream)
    \/ YieldPlan
    \/ BeginImplementing
    \/ CallEditorImplement
    \/ \E stream \in {s \in ImplementStreams : s[1].type = "text"} :
         EditorImplementResolves(stream)
    \/ AfterImplementation
    \/ CallArchitectEvaluate
    \/ \E stream \in EvaluateStreams : ArchitectEvaluateResolves(stream)
    \/ YieldEvaluation
    \/ AfterEvaluation
    \/ Return
    \/ RunOnceMore

InitRerun ==
    /\ OracleInit
    /\ PatternIdle
    /\ RunFresh
    /\ config = [maxIterations |-> RerunIterations, analyzer |-> FALSE,
                 typesContext |-> "", domains |-> <<>>, persona |-> Null,
                 oracleEnabled |-> FALSE, apiKey |-> ""]

SpecRerun ==
    InitRerun /\ [][RerunNext]_vars

(***************************************************************************)
(* The standalone engine of the MCP server (mcp-approval-oracle/README.md): *)
(* module-level rule lists and cache, functions instead of a class.        *)
(***************************************************************************)
\* const INSTANT_ALLOW of the standalone engine (lines 165-273)
StandaloneInstantAllow ==
    << Re(<<Lit("read:")>>),
       ReI(<<Lit("write:"), AnyStar, Lit("."), Alt(<<"ts", "js", "tsx", "jsx", "py", "rb", "go", "rs", "java", "kt", "swift", "md", "json", "yaml", "yml", "css", "scss", "html", "sql">>), End>>),
       Re(<<Lit("write:"), AnyStar, Lit("/src/")>>),
       Re(<<Lit("write:"), AnyStar, Lit("/lib/")>>),
       Re(<<Lit("write:"), AnyStar, Lit("/test/")>>),
       Re(<<Lit("write:"), AnyStar, Lit("/tests/")>>),
       Re(<<Lit("write:"), AnyStar, Lit("/spec/")>>),
       Re(<<Lit("write:"), AnyStar, Lit("/components/")>>),
       Re(<<Lit("write:"), AnyStar, Lit("/pages/")>>),
       Re(<<Lit("write:"), AnyStar, Lit("/app/")>>),
       Re(<<Lit("write:"), AnyStar, Lit("/public/")>>),
       Re(<<Lit("write:"), AnyStar, Lit("/assets/")>>),
       Re(<<Lit("write:"), AnyStar, Lit("/styles/")>>),
       Re(<<Lit("write:"), AnyStar, Lit("/utils/")>>),
       Re(<<Lit("write:"), AnyStar, Lit("/hooks/")>>),
       Re(<<Lit("write:"), AnyStar, Lit("/services/")>>),
       Re(<<Lit("write:"), AnyStar, Lit("/api/")>>),
       Re(<<Lit("write:"), AnyStar, Lit("/models/")>>),
       Re(<<Lit("write:"), AnyStar, Lit("/types/")>>),
       Re(<<Lit("write:"), AnyStar, Lit("/interfaces/")>>),
       Re(<<Lit("write:"), AnyStar, Lit("/contracts/")>>),
       Re(<<Lit("write:"), AnyStar, Lit("/.cline/")>>),
       Re(<<Lit("execute:npm "), Alt(<<"install", "ci", "run", "test", "build", "start", "lint", "format", "typecheck", "dev", "preview">>)>>),
       Re(<<Lit("execute:npx ")>>),
       Re(<<Lit("execute:yarn ")>>),
       Re(<<Lit("execute:pnpm ")>>),
       Re(<<Lit("execute:bun ")>>),
       Re(<<Lit("execute:deno ")>>),
       Re(<<Lit("execute:cargo "), Alt(<<"build", "run", "test", "check", "clippy", "fmt", "add", "remove">>)>>),
       Re(<<Lit("execute:go "), Alt(<<"build", "run", "test", "mod", "get", "fmt", "vet">>)>>),
       Re(<<Lit("execute:pip"), Alt(<<"3 install", " install">>)>>),
       Re(<<Lit("execute:python"), Alt(<<"3 ", " ">>)>>),
       Re(<<Lit("execute:ruby ")>>),
       Re(<<Lit("execute:bundle ")>>),
       Re(<<Lit("execute:gem install")>>),
       Re(<<Lit("execute:mix ")>>),
       Re(<<Lit("execute:elixir ")>>),
       Re(<<Lit("execute:dotnet ")>>),
       Re(<<Lit("execute:mvn ")>>),
       Re(<<Lit("execute:gradle ")>>),
       Re(<<Lit("execute:make"), EndOr(" ")>>),
       Re(<<Lit("execute:cmake ")>>),
       Re(<<Lit("execute:git "), Alt(<<"status", "diff", "log", "branch", "checkout", "add", "commit", "push", "pull", "fetch", "stash", "rebase", "merge", "clone", "init", "remote", "tag", "show", "blame", "reflog">>)>>),
       Re(<<Lit("execute:ls")>>),
       Re(<<Lit("execute:ll")>>),
       Re(<<Lit("execute:la")>>),
       Re(<<Lit("execute:cat ")>>),
       Re(<<Lit("execute:head ")>>),
       Re(<<Lit("execute:tail ")>>),
       Re(<<Lit("execute:less ")>>),
       Re(<<Lit("execute:more ")>>),
       Re(<<Lit("execute:grep ")>>),
       Re(<<Lit("execute:find ")>>),
       Re(<<Lit("execute:echo ")>>),
       Re(<<Lit("execute:printf ")>>),
       Re(<<Lit("execute:mkdir ")>>),
       Re(<<Lit("execute:touch ")>>),
       Re(<<Lit("execute:cp ")>>),
       Re(<<Lit("execute:mv ")>>),
       Re(<<Lit("execute:cd ")>>),
       Re(<<Lit("execute:pwd")>>),
       Re(<<Lit("execute:which ")>>),
       Re(<<Lit("execute:wc ")>>),
       Re(<<Lit("execute:sort ")>>),
       Re(<<Lit("execute:uniq ")>>),
       Re(<<Lit("execute:dir"), EndOr(" ")>>),
       Re(<<Lit("execute:type ")>>),
       Re(<<Lit("execute:copy ")>>),
       Re(<<Lit("execute:move ")>>),
       Re(<<Lit("execute:del "), NotAhead(<<"/f", "/q", "/s", "/a", "/p">>)>>),
       Re(<<Lit("execute:md ")>>),
       Re(<<Lit("execute:rd ")>>),
       Re(<<Lit("execute:where ")>>),
       Re(<<Lit("execute:set"), EndOr(" ")>>),
       Re(<<Lit("execute:echo.")>>),
       Re(<<Lit("execute:node ")>>),
       Re(<<Lit("execute:ts-node ")>>),
       Re(<<Lit("execute:tsx ")>>),
       Re(<<Lit("execute:esbuild ")>>),
       Re(<<Lit("execute:tsc"), EndOr(" ")>>),
       Re(<<Lit("execute:eslint ")>>),
       Re(<<Lit("execute:prettier ")>>),
       Re(<<Lit("execute:jest ")>>),
       Re(<<Lit("execute:vitest ")>>),
       Re(<<Lit("execute:mocha ")>>),
       Re(<<Lit("execute:pytest ")>>),
       Re(<<Lit("execute:rspec ")>>),
       Re(<<Lit("execute:phpunit ")>>),
       Re(<<Lit("execute:docker "), Alt(<<"build", "run", "ps", "images", "logs", "exec", "stop", "start", "restart", "pull", "push", "compose">>)>>),
       Re(<<Lit("execute:docker-compose ")>>),
       Re(<<Lit("execute:kubectl "), Alt(<<"get", "describe", "logs", "apply", "delete", "exec", "port-forward">>)>>),
       Re(<<Lit("execute:terraform "), Alt(<<"init", "plan", "apply", "destroy", "validate", "fmt">>)>>),
       Re(<<Lit("execute:curl "), AnyStar, Lit(" localhost")>>),
       Re(<<Lit("execute:curl "), AnyStar, Lit(" 127.0.0.1")>>),
       Re(<<Lit("execute:wget "), AnyStar, Lit(" localhost")>>),
       Re(<<Lit("execute:http ")>>),
       Re(<<Lit("browser:localhost")>>),
       Re(<<Lit("browser:127.0.0.1")>>),
       Re(<<Lit("browser:file://")>>) >>

\* const INSTANT_DENY of the standalone engine (lines 275-363)
StandaloneInstantDeny ==
    << Re(<<Lit("execute:rm -rf /"), End>>),
       Re(<<Lit("execute:rm -rf /*"), End>>),
       Re(<<Lit("execute:rm -rf ~"), End>>),
       Re(<<Lit("execute:rm -rf ~/*"), End>>),
       Re(<<Lit("execute:rm -rf ../")>>),
       Re(<<Lit("execute:dd if="), AnyStar, Lit("of=/dev/")>>),
       Re(<<Lit("execute:mkfs.")>>),
       Re(<<Lit("execute:fdisk ")>>),
       Re(<<Lit("execute:parted ")>>),
       Re(<<Lit("execute:rd /s /q "), Alpha, Lit(":\\"), End>>),
       Re(<<Lit("execute:del /f /s /q "), Alpha, Lit(":\\"), End>>),
       Re(<<Lit("execute:format "), Alpha, Lit(":")>>),
       Re(<<Lit("execute:diskpart")>>),
       Re(<<Lit("execute:"), AnyStar, Lit(">/etc/")>>),
       Re(<<Lit("execute:"), AnyStar, Lit(">/usr/")>>),
       Re(<<Lit("execute:"), AnyStar, Lit(">/bin/")>>),
       Re(<<Lit("execute:"), AnyStar, Lit(">/sbin/")>>),
       Re(<<Lit("execute:"), AnyStar, Lit(">/boot/")>>),
       Re(<<Lit("execute:"), AnyStar, Lit(">/sys/")>>),
       Re(<<Lit("execute:"), AnyStar, Lit(">/proc/")>>),
       Re(<<Lit("write:/etc/")>>),
       Re(<<Lit("write:/usr/")>>),
       Re(<<Lit("write:/bin/")>>),
       Re(<<Lit("write:/sbin/")>>),
       Re(<<Lit("write:/boot/")>>),
       ReI(<<Lit("write:"), Alpha, Lit(":\\Windows\\")>>),
       ReI(<<Lit("write:"), Alpha, Lit(":\\Program Files")>>),
       ReI(<<Lit("write:"), Alpha, Lit(":\\System")>>),
       ReI(<<Lit("execute:"), AnyStar, Lit(">"), Alpha, Lit(":\\Windows\\")>>),
       Re(<<Lit("write:"), AnyStar, Lit("/.env"), End>>),
       Re(<<Lit("write:"), AnyStar, Lit("/.env.local"), End>>),
       Re(<<Lit("write:"), AnyStar, Lit("/.env.production"), End>>),
       Re(<<Lit("write:"), AnyStar, Lit("\\.env"), End>>),
       Re(<<Lit("write:"), AnyStar, Lit("\\.env.local"), End>>),
       Re(<<Lit("write:"), AnyStar, Lit("/.ssh/")>>),
       Re(<<Lit("write:"), AnyStar, Lit("\\.ssh\\")>>),
       Re(<<Lit("write:"), AnyStar, Lit("/.aws/")>>),
       Re(<<Lit("write:"), AnyStar, Lit("\\.aws\\")>>),
       Re(<<Lit("write:"), AnyStar, Lit("/.gcp/")>>),
       Re(<<Lit("write:"), AnyStar, Lit("/.azure/")>>),
       ReI(<<Lit("write:"), AnyStar, Lit("/credentials")>>),
       ReI(<<Lit("write:"), AnyStar, Lit("/secrets")>>),
       ReI(<<Lit("write:"), AnyStar, Lit("\\credentials")>>),
       ReI(<<Lit("write:"), AnyStar, Lit("\\secrets")>>),
       Re(<<Lit("write:"), AnyStar, Lit("/.netrc"), End>>),
       Re(<<Lit("write:"), AnyStar, Lit("/.npmrc"), End>>),
       Re(<<Lit("write:"), AnyStar, Lit("/.pypirc"), End>>),
       Re(<<Lit("execute:curl"), AnyStar, Lit("|"), AnyStar, Lit("sh"), End>>),
       Re(<<Lit("execute:curl"), AnyStar, Lit("|"), AnyStar, Lit("bash"), End>>),
       Re(<<Lit("execute:wget"), AnyStar, Lit("|"), AnyStar, Lit("sh"), End>>),
       Re(<<Lit("execute:wget"), AnyStar, Lit("|"), AnyStar, Lit("bash"), End>>),
       ReI(<<Lit("execute:powershell"), AnyStar, Lit("-enc")>>),
       ReI(<<Lit("execute:powershell"), AnyStar, Lit("downloadstring")>>),
       ReI(<<Lit("execute:powershell"), AnyStar, Lit("invoke-webrequest"), AnyStar, Lit("|"), AnyStar, Lit("iex")>>),
       Re(<<Lit("execute:chmod 777")>>),
       Re(<<Lit("execute:chmod -R 777")>>),
       Re(<<Lit("execute:chown"), AnyStar, Lit(":"), AnyStar, Lit("/")>>),
       Re(<<Lit("execute:sudo ")>>),
       Re(<<Lit("execute:su ")>>),
       Re(<<Lit("execute:passwd")>>),
       Re(<<Lit("execute:visudo")>>),
       ReI(<<Lit("execute:runas ")>>),
       Re(<<Lit("execute:"), AnyStar, Lit("| curl")>>),
       Re(<<Lit("execute:"), AnyStar, Lit("| nc ")>>),
       Re(<<Lit("execute:"), AnyStar, Lit("| netcat")>>),
       Re(<<Lit("execute:scp "), AnyStar, Lit(" "), AnyStar, Lit("@"), AnyStar, Lit(":")>>),
       Re(<<Lit("execute:rsync "), AnyStar, Lit(" "), AnyStar, Lit("@"), AnyStar, Lit(":")>>),
       ReI(<<Lit("write:"), AnyStar, Lit("wallet")>>),
       Re(<<Lit("write:"), AnyStar, Lit(".key"), End>>),
       Re(<<Lit("write:"), AnyStar, Lit(".pem"), End>>),
       ReI(<<Lit("write:"), AnyStar, Lit("private"), AnyStar, Lit("key")>>),
       ReI(<<Lit("write:"), AnyStar, Lit("\\wallet")>>) >>

\* normalizePath (lines 156-158): p.replace(/\\/g, "/")
normalizePath(p) ==
    MapChars(p, "slash")

\* the extensions of the standalone extractPattern's first replace
StandaloneExtensions ==
    {"ts", "js", "tsx", "jsx", "py", "json", "yaml", "yml", "md"}

\* .replace(/\/[^\/]+\.(ts|js|tsx|jsx|py|json|yaml|yml|md)$/i, "/*.$1"): the
\* leftmost match, its [^\/]+ as long as it can be
StandaloneReplaceExtension(s) ==
    LET ms == {m \in (1..Len(s)) \X (1..Len(s)) :
                  /\ CharAt(s, m[1]) = "/"
                  /\ m[1] + 1 < m[2]
                  /\ CharAt(s, m[2]) = "."
                  /\ \A x \in (m[1] + 1)..(m[2] - 1) : CharAt(s, x) # "/"
                  /\ ToLowerCase(From(s, m[2] + 1)) \in StandaloneExtensions}
    IN  IF ms = {} THEN s
        ELSE LET i == Least({m[1] : m \in ms})
                 j == CHOOSE x \in {m[2] : m \in {n \in ms : n[1] = i}} :
                          \A y \in {m[2] : m \in {n \in ms : n[1] = i}} : x >= y
             IN  SubSeq(s, 1, i - 1) \o "/*." \o From(s, j + 1)

\* function extractPattern(action, target) of the standalone engine
\* (lines 367-376)
StandaloneExtractPattern(action, target) ==
    LET t0 == normalizePath(target)
        t1 == StandaloneReplaceExtension(t0)
        t2 == ReplaceDirectory(t1, "/node_modules/")
        t3 == ReplaceDirectory(t2, "/dist/")
        t4 == ReplacePort(t3)
    IN  action \o ":" \o ReplaceNumeric(t4)

\* the requests the standalone decide is called with
StandaloneRequests ==
    Requests
    \cup {[action |-> "execute", target |-> "del /q C:\\tmp\\build"],
          [action |-> "write",   target |-> "C:\\Users\\u\\.env"]}

\* what decide computes from a request before it looks at the cache: the
\* pattern, and whether the literal matches a deny or an allow rule
StandaloneTable ==
    [r \in StandaloneRequests |->
        LET literal == r.action \o ":" \o normalizePath(r.target)
        IN  [pattern |-> StandaloneExtractPattern(r.action, r.target),
             deny |-> SomeTest(StandaloneInstantDeny, literal),
             allow |-> SomeTest(StandaloneInstantAllow, literal)]]

\* a decision object whose fields are the values JSON.parse gave them;
\* object = FALSE is null
DecisionValue(allow, persist, reasoning) ==
    [object |-> TRUE, allow |-> allow, persist |-> persist, reasoning |-> reasoning]

\* the catch branch of decideWithOpus (lines 410-413)
StandaloneApiError ==
    DecisionValue(JBool(TRUE), JStr("once"), JStr("API error, allowing once"))

\* decideWithOpus once the adjudicator answered (lines 406-409): the text of
\* a first block of type text, else "", is stripped of fences, trimmed and
\* parsed, and what JSON.parse returns is returned as it is; a response
\* without content and a text that does not parse throw inside the try block
decideWithOpusResolved(response) ==
    IF "content" \notin DOMAIN response THEN StandaloneApiError
    ELSE LET text == IF response.content = <<>> THEN ""
                     ELSE IF "type" \notin DOMAIN response.content[1] THEN ""
                     ELSE IF response.content[1].type # "text" THEN ""
                     ELSE response.content[1].text
             parsed == JSONParse(Trim(StripFences(text)))
         IN  IF ~parsed.ok THEN StandaloneApiError
             ELSE [object |-> parsed.object, allow |-> parsed.allow,
                   persist |-> parsed.persist, reasoning |-> parsed.reasoning]

\* decideWithOpus evaluated once per response
StandaloneParseTable ==
    [response \in Responses |-> decideWithOpusResolved(response)]

\* the standalone decide up to its return or its await (lines 416-445)
StandaloneDecide(request) ==
    /\ Len(calls) < MaxCalls
    /\ LET t == StandaloneTable[request]
       IN  IF t.pattern \in DOMAIN persistedRules
           THEN /\ calls' = Append(calls,
                      [request |-> request, escalated |-> FALSE, threw |-> FALSE,
                       decision |-> <<DecisionValue(persistedRules[t.pattern],
                                                    JStr("always"),
                                                    JStr("Cached rule"))>>])
                /\ UNCHANGED persistedRules
           ELSE IF t.deny
           THEN /\ calls' = Append(calls,
                      [request |-> request, escalated |-> FALSE, threw |-> FALSE,
                       decision |-> <<DecisionValue(JBool(FALSE), JStr("always"),
                                                    JStr("Blocked pattern"))>>])
                /\ persistedRules' = MapSet(persistedRules, t.pattern, JBool(FALSE))
           ELSE IF t.allow
           THEN /\ calls' = Append(calls,
                      [request |-> request, escalated |-> FALSE, threw |-> FALSE,
                       decision |-> <<DecisionValue(JBool(TRUE), JStr("always"),
                                                    JStr("Safe pattern"))>>])
                /\ persistedRules' = MapSet(persistedRules, t.pattern, JBool(TRUE))
           ELSE /\ calls' = Append(calls,
                      [request |-> request, escalated |-> TRUE, threw |-> FALSE,
                       decision |-> <<>>])
                /\ UNCHANGED persistedRules
    /\ UNCHANGED <<adminOps, engine, patternVars, runVars, hostVars>>

\* decide resumed with the decision of decideWithOpus (lines 448-452):
\* reading decision.persist of null throws, a decision whose persist is
\* "always" is cached with whatever its allow is
StandaloneResumes(i, decision) ==
    /\ i \in 1..Len(calls)
    /\ calls[i].escalated
    /\ calls[i].decision = <<>>
    /\ ~calls[i].threw
    /\ IF ~decision.object
       THEN /\ calls' = [calls EXCEPT ![i].threw = TRUE]
            /\ UNCHANGED persistedRules
       ELSE /\ calls' = [calls EXCEPT ![i].decision = <<decision>>]
            /\ persistedRules' =
                   IF decision.persist = JStr("always")
                   THEN MapSet(persistedRules,
                               StandaloneTable[calls[i].request].pattern,
                               decision.allow)
                   ELSE persistedRules
    /\ UNCHANGED <<adminOps, engine, patternVars, runVars, hostVars>>

\* the adjudicator answers call i
StandaloneOpusResponds(i, response) ==
    StandaloneResumes(i, StandaloneParseTable[response])

\* client.messages.create of call i throws: the catch branch answers
StandaloneOpusThrows(i) ==
    StandaloneResumes(i, StandaloneApiError)

StandaloneNext ==
    \/ \E r \in StandaloneRequests : StandaloneDecide(r)
    \/ \E i \in 1..MaxCalls, response \in Responses : StandaloneOpusResponds(i, response)
    \/ \E i \in 1..MaxCalls : StandaloneOpusThrows(i)

\* the module is loaded: const persistedRules = new Map() (line 365); no
\* ApprovalOracle object exists
InitStandalone ==
    /\ persistedRules = <<>>
    /\ calls = <<>>
    /\ adminOps = 0
    /\ engine = AbsentEngine
    /\ twin = NoTwin
    /\ PatternIdle
    /\ RunIdle

SpecStandalone ==
    InitStandalone /\ [][StandaloneNext]_vars

(***************************************************************************)
(* exportRules, clearPersistedRules and importRules of what was exported,  *)
(* on the engine that exported and on a fresh one.                         *)
(***************************************************************************)
\* exportRules is called and the caller keeps the object it returns, next to
\* the cache as it was at that moment
ExportRules ==
    /\ baseline = Null
    /\ engine.status = "constructed"
    /\ baseline' = Some([exported |-> exportRules(persistedRules),
                         rules |-> persistedRules])
    /\ UNCHANGED <<oracleVars, patternVars, runVars, host, twin>>

\* importRules is called with the object exportRules returned
ImportExported ==
    /\ baseline # Null
    /\ adminOps \in 1..MaxAdminOps
    /\ adminOps' = adminOps + 1
    /\ persistedRules' = importRules(persistedRules, baseline[1].exported)
    /\ UNCHANGED <<calls, engine, patternVars, runVars, hostVars>>

\* importRules is called with that object on an engine just constructed,
\* whose cache is empty
ImportIntoFresh ==
    /\ baseline # Null
    /\ twin = NoTwin
    /\ twin' = [twin EXCEPT !.rules = importRules(<<>>, baseline[1].exported),
                            !.same = <<TRUE>>]
    /\ UNCHANGED <<oracleVars, patternVars, runVars, host, baseline>>

RoundTripNext ==
    \/ \E r \in Requests : Decide(r)
    \/ \E i \in 1..MaxCalls, response \in Responses : OpusResponds(i, response)
    \/ \E i \in 1..MaxCalls : OpusThrows(i)
    \/ ExportRules
    \/ ClearPersistedRules
    \/ ImportExported
    \/ ImportIntoFresh

SpecRoundTrip ==
    InitOracle /\ [][RoundTripNext]_vars

(* Claims.                                                                 *)
(***************************************************************************)
\* C7 (as claimed): generalizing an already generalized target yields the same
\* string, generalize(generalize(x)) = generalize(x), for every target x.
C7_PatternIdempotent ==
    Len(genTrace) = 2 => genTrace[2] = genTrace[1]

\* the last call of calls
LastCall ==
    calls[Len(calls)]

\* how many of the calls made so far, with Pattern p, invoked the adjudicator
AdjudicatorCalls(p) ==
    Cardinality({i \in 1..Len(calls) :
                    calls[i].escalated /\ PatternTable[calls[i].request] = p})

\* C1 (as claimed): a request whose literal action:target matches both a deny
\* matcher and an allow matcher is answered with allow = false.
C1_DenyPrecedence ==
    \A i \in 1..Len(calls) :
        (/\ calls[i].decision # <<>>
         /\ DenyTable[calls[i].request]
         /\ AllowTable[calls[i].request])
        => calls[i].decision[1].allow = FALSE

\* C2: when the adjudicator call throws, decide returns {allow: true,
\* persist: once} with a reasoning that states the failure, and neither the
\* step that escalated nor the step that caught the error changes the cache.
C2_FailOpen ==
    [][/\ \A i \in 1..MaxCalls :
            OpusThrows(i) =>
                /\ calls'[i].decision =
                       <<[allow |-> TRUE, persist |-> "once",
                          reasoning |-> "API error, allowing once"]>>
                /\ persistedRules' = persistedRules
       /\ \A r \in Requests :
            (Decide(r) /\ calls'[Len(calls')].escalated) =>
                persistedRules' = persistedRules]_vars

C2_Witness ==
    \E i \in 1..Len(calls) :
        /\ calls[i].escalated
        /\ calls[i].decision # <<>>
        /\ calls[i].decision[1].reasoning = "API error, allowing once"

\* C3 (as claimed): the decide calls whose targets generalize to one Pattern
\* invoke the adjudicator at most once combined.
C3_AtMostOnce ==
    \A r \in Requests : AdjudicatorCalls(PatternTable[r]) <= 1

\* C3 (amended): once a decide call has returned a decision with persist
\* "always" its Pattern is cached, the Pattern stays cached until
\* clearPersistedRules, and no decide call whose Pattern is cached invokes the
\* adjudicator: two calls with one Pattern invoke it at most once combined
\* when the first returned with persist "always" before the second began.
C3_OnceCachedNeverAsked ==
    [][/\ \A i \in 1..Len(calls') :
            (/\ calls'[i].decision # <<>>
             /\ calls'[i].decision[1].persist = "always"
             /\ (i > Len(calls) \/ calls[i].decision = <<>>))
            => PatternTable[calls'[i].request] \in DOMAIN persistedRules'
       /\ ~ClearPersistedRules => DOMAIN persistedRules \subseteq DOMAIN persistedRules'
       /\ \A r \in Requests :
            (Decide(r) /\ PatternTable[r] \in DOMAIN persistedRules)
            => AdjudicatorCalls(PatternTable[r])' = AdjudicatorCalls(PatternTable[r])]_vars

C3_Witness ==
    /\ Len(calls) = 2
    /\ calls[1].escalated
    /\ calls[1].decision # <<>>
    /\ calls[1].decision[1].persist = "always"
    /\ calls[2].request # calls[1].request
    /\ PatternTable[calls[2].request] = PatternTable[calls[1].request]
    /\ ~calls[2].escalated
    /\ calls[2].decision[1].reasoning = "Cached rule"

\* C8: a decide call whose Pattern is cached returns the cached boolean with
\* persist "always" and reasoning "Cached rule", does not invoke the
\* adjudicator and leaves the cache unchanged.
C8_CacheHit ==
    [][\A r \in Requests :
          (Decide(r) /\ PatternTable[r] \in DOMAIN persistedRules) =>
              /\ calls' = Append(calls,
                     [request |-> r, escalated |-> FALSE,
                      decision |-> <<[allow |-> persistedRules[PatternTable[r]],
                                      persist |-> "always",
                                      reasoning |-> "Cached rule"]>>])
              /\ persistedRules' = persistedRules]_vars

C8_Witness ==
    /\ calls # <<>>
    /\ ~LastCall.escalated
    /\ LastCall.decision[1].reasoning = "Cached rule"
    /\ PatternTable[LastCall.request] \in DOMAIN persistedRules

\* C9: a decide call whose Pattern is not cached and whose literal matches a
\* deny matcher writes false into the cache under the Pattern, returns
\* {allow: false, persist: always, reasoning: "Blocked pattern"} and does not
\* invoke the adjudicator.
C9_DenyFastPath ==
    [][\A r \in Requests :
          (/\ Decide(r)
           /\ PatternTable[r] \notin DOMAIN persistedRules
           /\ SomeTest(INSTANT_DENY, Literal(r))) =>
              /\ calls' = Append(calls,
                     [request |-> r, escalated |-> FALSE,
                      decision |-> <<[allow |-> FALSE, persist |-> "always",
                                      reasoning |-> "Blocked pattern"]>>])
              /\ DOMAIN persistedRules' = DOMAIN persistedRules \cup {PatternTable[r]}
              /\ persistedRules'[PatternTable[r]] = FALSE
              /\ \A q \in DOMAIN persistedRules : persistedRules'[q] = persistedRules[q]]_vars

C9_Witness ==
    /\ calls # <<>>
    /\ LastCall.request = [action |-> "execute", target |-> "rm -rf /"]
    /\ LastCall.decision # <<>>
    /\ LastCall.decision[1].reasoning = "Blocked pattern"
    /\ "execute:rm -rf /" \in DOMAIN persistedRules
    /\ persistedRules["execute:rm -rf /"] = FALSE

\* C10: a decide call whose Pattern is not cached and whose literal matches no
\* deny matcher but an allow matcher writes true into the cache under the
\* Pattern, returns {allow: true, persist: always, reasoning: "Safe pattern"}
\* and does not invoke the adjudicator; a decide call invokes the adjudicator
\* only when its Pattern is not cached and neither list matches its literal.
C10_AllowFastPath ==
    [][\A r \in Requests :
          /\ (/\ Decide(r)
              /\ PatternTable[r] \notin DOMAIN persistedRules
              /\ ~SomeTest(INSTANT_DENY, Literal(r))
              /\ SomeTest(INSTANT_ALLOW, Literal(r))) =>
                 /\ calls' = Append(calls,
                        [request |-> r, escalated |-> FALSE,
                         decision |-> <<[allow |-> TRUE, persist |-> "always",
                                         reasoning |-> "Safe pattern"]>>])
                 /\ DOMAIN persistedRules' = DOMAIN persistedRules \cup {PatternTable[r]}
                 /\ persistedRules'[PatternTable[r]] = TRUE
                 /\ \A q \in DOMAIN persistedRules : persistedRules'[q] = persistedRules[q]
          /\ (Decide(r) /\ calls'[Len(calls')].escalated) =>
                 /\ PatternTable[r] \notin DOMAIN persistedRules
                 /\ ~SomeTest(INSTANT_DENY, Literal(r))
                 /\ ~SomeTest(INSTANT_ALLOW, Literal(r))]_vars

C10_Witness ==
    /\ calls # <<>>
    /\ LastCall.request = [action |-> "write", target |-> "/project/src/app.ts"]
    /\ LastCall.decision # <<>>
    /\ LastCall.decision[1].reasoning = "Safe pattern"
    /\ "write:/project/src/*.ts" \in DOMAIN persistedRules
    /\ persistedRules["write:/project/src/*.ts"] = TRUE

(***************************************************************************)
(* Claims about ArchitectOrchestrator.run.                                 *)
(***************************************************************************)
\* the phase updates yielded so far
PhaseUpdates ==
    SelectSeq(updates, LAMBDA u : u.type = "phase")

\* the phase updates of k full Planning/Implementing/Evaluating cycles
Cycles(k) ==
    [i \in 1..(3 * k) |->
       [type |-> "phase",
        phase |-> <<"planning", "implementing", "evaluating">>[((i - 1) % 3) + 1],
        iteration |-> ((i - 1) \div 3) + 1]]

\* how many updates of a type are among the first j
CountUpdates(type, j) ==
    Cardinality({i \in 1..j : updates[i].type = type})

\* the texts the reviewer can answer with, and whether each is an approval
\* (it begins with APPROVED once trimmed and upper-cased)
ApprovalTable ==
    [text \in {extractThinkingAndContent(collectStreamResponse(stream)).content :
                  stream \in EvaluateStreams} |->
       StartsWith(ToUpperCase(Trim(text)), "APPROVED")]

\* the reviewer's text is an approval
ReviewerApproves(text) ==
    ApprovalTable[text]

\* the content of the n-th update of a type
NthContent(type, n) ==
    SelectSeq(updates, LAMBDA u : u.type = type)[n].content

\* C4: when the reviewer's evaluation approves on pass k, that pass is within
\* the budget and is the first to approve, the phase updates up to it are
\* exactly k Planning/Implementing/Evaluating cycles, the only update after it
\* is complete with iterations = k, no max_iterations update is yielded, the
\* phase becomes complete and no further role call is made.
C4_Convergence ==
    \A j \in 1..Len(updates) :
        (updates[j].type = "evaluation" /\ ReviewerApproves(updates[j].content)) =>
            LET k == CountUpdates("evaluation", j)
            IN /\ k \in 1..config.maxIterations
               /\ \A i \in 1..(j - 1) :
                      updates[i].type = "evaluation" =>
                          ~ReviewerApproves(updates[i].content)
               /\ SelectSeq(SubSeq(updates, 1, j), LAMBDA u : u.type = "phase")
                      = Cycles(k)
               /\ PhaseUpdates = Cycles(k)
               /\ Len(roleCalls) = 3 * k
               /\ \A i \in 1..Len(updates) : updates[i].type # "max_iterations"
               /\ IF pc = "yield evaluation"
                  THEN Len(updates) = j
                  ELSE /\ pc \in {"yield complete", "returned"}
                       /\ Len(updates) = j + 1
                       /\ updates[j + 1] = [type |-> "complete", iterations |-> k]
                       /\ state.phase = "complete"
                       /\ state.currentIteration = k

\* the reviewer approved on the last allowed pass of the largest budget and
\* run returned
C4_Witness ==
    /\ pc = "returned"
    /\ config.maxIterations = MaxIterations
    /\ CountUpdates("evaluation", Len(updates)) = MaxIterations
    /\ updates[Len(updates)] = [type |-> "complete", iterations |-> MaxIterations]

\* C5: with maxIterations = n >= 1 and a reviewer that has not approved, the
\* phase updates are a prefix of n full cycles and no complete update is
\* yielded; once the n-th evaluation is consumed the phase is failed and
\* max_iterations with iterations = n is the last update, after exactly n
\* full cycles and 3n role calls.
C5_BudgetExhaustion ==
    LET n == config.maxIterations
        evaluations == CountUpdates("evaluation", Len(updates))
        exhausted == pc \in {"yield max_iterations", "returned"}
    IN (/\ n >= 1
        /\ \A i \in 1..Len(updates) :
               updates[i].type = "evaluation" => ~ReviewerApproves(updates[i].content))
       =>
       /\ Len(PhaseUpdates) <= 3 * n
       /\ PhaseUpdates = SubSeq(Cycles(n), 1, Len(PhaseUpdates))
       /\ \A i \in 1..Len(updates) : updates[i].type # "complete"
       /\ state.phase # "complete"
       /\ (\E i \in 1..Len(updates) : updates[i].type = "max_iterations") => exhausted
       /\ (evaluations = n /\ pc # "yield evaluation") => exhausted
       /\ exhausted =>
              /\ PhaseUpdates = Cycles(n)
              /\ evaluations = n
              /\ CountUpdates("plan", Len(updates)) = n
              /\ CountUpdates("implementation", Len(updates)) = n
              /\ Len(roleCalls) = 3 * n
              /\ CountUpdates("max_iterations", Len(updates)) = 1
              /\ updates[Len(updates)] = [type |-> "max_iterations", iterations |-> n]
              /\ state.phase = "failed"

\* the reviewer never approved within the largest budget and run returned
C5_Witness ==
    /\ pc = "returned"
    /\ config.maxIterations = MaxIterations
    /\ state.phase = "failed"
    /\ CountUpdates("evaluation", Len(updates)) = MaxIterations
    /\ updates[Len(updates)] = [type |-> "max_iterations", iterations |-> MaxIterations]

\* C6: the context of each role call has the context of the role call before
\* it as a prefix; the role calls of one iteration get the same context; the
\* first role call of iteration N+1 gets the context of iteration N followed
\* by text that contains the implementation and the (non-approving)
\* evaluation of iteration N verbatim; the context is part of the message.
C6_ContextAccumulation ==
    /\ \A b \in 1..Len(roleCalls) :
           LET call == roleCalls[b]
               tail == "\n\nEvaluate the implementation."
           IN \E pos \in {Len("Context:\n") + 1,
                          Len(call.message) - Len(tail) - Len(call.context) + 1} :
                  StartsWithAt(call.message, pos, call.context)
    /\ \A b \in 2..Len(roleCalls) :
           LET prev == roleCalls[b - 1]
               cur == roleCalls[b]
               added == From(cur.context, Len(prev.context) + 1)
           IN /\ StartsWith(cur.context, prev.context)
              /\ cur.iteration = prev.iteration => cur.context = prev.context
              /\ cur.iteration # prev.iteration =>
                     /\ cur.iteration = prev.iteration + 1
                     /\ Len(cur.context) > Len(prev.context)
                     /\ ~ReviewerApproves(NthContent("evaluation", prev.iteration))
                     /\ Contains(added, NthContent("implementation", prev.iteration))
                     /\ Contains(added, NthContent("evaluation", prev.iteration))

\* the evaluation of the third iteration was requested, two non-approved
\* iterations after types were put in front of the context
C6_Witness ==
    /\ config.typesContext # ""
    /\ roleCalls # <<>>
    /\ roleCalls[Len(roleCalls)].role = "architectEvaluate"
    /\ roleCalls[Len(roleCalls)].iteration = MaxIterations
    /\ roleCalls[Len(roleCalls)].context # roleCalls[1].context

(***************************************************************************)
(* Claims about the adjudicator's answers and the rule cache.              *)
(***************************************************************************)
\* C11: when the adjudicator answers a call, the decision returned has one of
\* the three scopes; if its persist is "always" the cache afterwards maps the
\* call's Pattern to the decision's allow and is otherwise as before; if its
\* persist is "once" or "session" the cache is unchanged.
C11_CachedIffAlways ==
    [][\A i \in 1..MaxCalls, response \in Responses :
          OpusResponds(i, response) =>
              LET decision == calls'[i].decision[1]
                  pattern == PatternTable[calls[i].request]
              IN  /\ decision.persist \in {"once", "session", "always"}
                  /\ IF decision.persist = "always"
                     THEN /\ DOMAIN persistedRules'
                                = DOMAIN persistedRules \cup {pattern}
                          /\ persistedRules'[pattern] = decision.allow
                          /\ \A q \in DOMAIN persistedRules \ {pattern} :
                                 persistedRules'[q] = persistedRules[q]
                     ELSE persistedRules' = persistedRules]_vars

\* the adjudicator denied one call for the session, which cached nothing,
\* and the next call of that Pattern for always, which cached the denial
C11_Witness ==
    /\ Len(calls) = 2
    /\ calls[1].escalated /\ calls[1].decision # <<>>
    /\ calls[2].escalated /\ calls[2].decision # <<>>
    /\ calls[1].decision[1].persist = "session"
    /\ calls[2].decision[1] = [allow |-> FALSE, persist |-> "always",
                               reasoning |-> "dangerous"]
    /\ DOMAIN persistedRules = {PatternTable[calls[2].request]}
    /\ persistedRules[PatternTable[calls[2].request]] = FALSE

\* whether a response is malformed: it has no content, or its text (fences
\* stripped, trimmed) is not JSON, or is null, or has no boolean allow
MalformedTable ==
    [response \in Responses |->
        \/ "content" \notin DOMAIN response
        \/ LET parsed == JSONParse(Trim(StripFences(ResponseText(response))))
           IN  ~parsed.ok \/ ~parsed.object \/ parsed.allow.t # "boolean"]

\* C12: when the adjudicator answers a call with a malformed response, the
\* call returns {allow: true, persist: "once"} with a reasoning that states
\* the failure, and the cache is unchanged; every answered call returns a
\* decision.
C12_MalformedFailsOpen ==
    [][\A i \in 1..MaxCalls, response \in Responses :
          OpusResponds(i, response) =>
              /\ calls'[i].decision # <<>>
              /\ MalformedTable[response] =>
                     /\ calls'[i].decision[1].allow = TRUE
                     /\ calls'[i].decision[1].persist = "once"
                     /\ calls'[i].decision[1].reasoning
                            \in {"Parse failed, allowing once",
                                 "API error, allowing once"}
                     /\ persistedRules' = persistedRules]_vars

\* a call was answered with a malformed response and returned the parse
\* failure decision; nothing is cached and the next call of its Pattern
\* escalated again
C12_Witness ==
    /\ Len(calls) = 2
    /\ calls[1].escalated
    /\ calls[1].decision = <<[allow |-> TRUE, persist |-> "once",
                              reasoning |-> "Parse failed, allowing once"]>>
    /\ calls[2].escalated
    /\ PatternTable[calls[2].request] = PatternTable[calls[1].request]
    /\ persistedRules = <<>>

\* what JSON.parse yields for each response that is not malformed
ParsedTable ==
    [response \in {r \in Responses : ~MalformedTable[r]} |->
        JSONParse(Trim(StripFences(ResponseText(response))))]

\* C13: when the adjudicator answers a call with a response whose allow is a
\* boolean, the decision returned has that allow; its persist is the
\* response's persist when that is once, session or always and "once"
\* otherwise, in which case the cache is unchanged; its reasoning is the
\* response's reasoning when that is a string and "No reason provided"
\* otherwise.
C13_ResponseValidation ==
    [][\A i \in 1..MaxCalls, response \in Responses :
          (OpusResponds(i, response) /\ ~MalformedTable[response]) =>
              LET parsed == ParsedTable[response]
                  decision == calls'[i].decision[1]
                  scoped == /\ parsed.persist.t = "string"
                            /\ parsed.persist.s \in {"once", "session", "always"}
              IN  /\ decision.allow = parsed.allow.b
                  /\ decision.persist \in {"once", "session", "always"}
                  /\ scoped => decision.persist = parsed.persist.s
                  /\ ~scoped => /\ decision.persist = "once"
                                /\ persistedRules' = persistedRules
                  /\ decision.reasoning = IF parsed.reasoning.t = "string"
                                          THEN parsed.reasoning.s
                                          ELSE "No reason provided"]_vars

\* calls were answered with allow but an invalid persist and no reasoning,
\* and with a denial without persist whose reasoning is a number
C13_Witness ==
    /\ Len(calls) = 2
    /\ calls[1].decision = <<[allow |-> TRUE, persist |-> "once",
                              reasoning |-> "No reason provided"]>>
    /\ calls[2].decision = <<[allow |-> FALSE, persist |-> "once",
                              reasoning |-> "No reason provided"]>>
    /\ persistedRules = <<>>

\* C14: importRules(mapping) leaves a cache whose keys are the keys cached
\* before and the keys of mapping; every key of mapping maps to mapping's
\* value, also when it was cached with another value, and every other key
\* keeps its value.
C14_ImportMerges ==
    [][\A mapping \in ImportMaps :
          ImportRules(mapping) =>
              /\ DOMAIN persistedRules' = DOMAIN persistedRules \cup DOMAIN mapping
              /\ \A q \in DOMAIN mapping : persistedRules'[q] = mapping[q]
              /\ \A q \in DOMAIN persistedRules \ DOMAIN mapping :
                     persistedRules'[q] = persistedRules[q]]_vars

\* the allow fast path cached write:/project/src/*.ts as true and the deny
\* fast path cached execute:rm -rf / as false; importRules then overwrote the
\* first with false and left the second
C14_Witness ==
    /\ Len(calls) = 2
    /\ calls[1].request = [action |-> "write", target |-> "/project/src/app.ts"]
    /\ calls[1].decision[1].reasoning = "Safe pattern"
    /\ calls[2].request = [action |-> "execute", target |-> "rm -rf /"]
    /\ adminOps = 1
    /\ DOMAIN persistedRules = {"write:/project/src/*.ts", "execute:rm -rf /"}
    /\ persistedRules["write:/project/src/*.ts"] = FALSE
    /\ persistedRules["execute:rm -rf /"] = FALSE

\* C15: clearPersistedRules leaves a cache that exportRules returns as the
\* empty mapping; a decide call made while no rule is cached never returns
\* "Cached rule": it returns "Blocked pattern" when its literal matches a
\* deny matcher, "Safe pattern" when it matches only an allow matcher, and
\* invokes the adjudicator otherwise.
C15_ClearEmpties ==
    [][/\ ClearPersistedRules =>
              /\ DOMAIN persistedRules' = {}
              /\ exportRules(persistedRules') = <<>>
       /\ \A r \in Requests :
              (Decide(r) /\ DOMAIN persistedRules = {}) =>
                  LET call == calls'[Len(calls')]
                  IN  /\ call.request = r
                      /\ IF SomeTest(INSTANT_DENY, Literal(r))
                         THEN call.decision[1].reasoning = "Blocked pattern"
                         ELSE IF SomeTest(INSTANT_ALLOW, Literal(r))
                         THEN call.decision[1].reasoning = "Safe pattern"
                         ELSE call.escalated /\ call.decision = <<>>]_vars

\* write:/project/src/*.ts was cached as allowed, the cache was cleared, and
\* the next request of that Pattern went through the deny list again
C15_Witness ==
    /\ Len(calls) = 2
    /\ calls[1].request = [action |-> "write", target |-> "/project/src/app.ts"]
    /\ calls[1].decision[1].reasoning = "Safe pattern"
    /\ calls[2].request = [action |-> "write", target |-> "/project/src/wallet.ts"]
    /\ calls[2].decision[1].reasoning = "Blocked pattern"
    /\ adminOps = 1
    /\ DOMAIN exportRules(persistedRules) = {"write:/project/src/*.ts"}
    /\ persistedRules["write:/project/src/*.ts"] = FALSE

(***************************************************************************)
(* Claims about the construction of the engine.                            *)
(***************************************************************************)
\* the custom pattern strings that are not regular expressions: a group
\* that is not closed, a class that is not closed, a quantifier with nothing
\* to repeat
InvalidPatterns ==
    {"^execute:(rm -rf", "^write:/project/[", "^*delete:"}

\* whether a list of pattern strings holds an invalid one
HasInvalid(patterns) ==
    \E n \in 1..Len(patterns) : patterns[n] \in InvalidPatterns

\* C16: an engine whose configuration holds an invalid custom allow or deny
\* pattern is never constructed and never decides a request: its constructor
\* throws; the constructor throws for no other configuration, and a
\* constructed engine holds one matcher per custom pattern.
C16_InvalidPatternFailsFast ==
    LET invalid == \/ HasInvalid(engine.customAllowPatterns)
                   \/ HasInvalid(engine.customDenyPatterns)
    IN  /\ invalid => /\ engine.status \in {"new", "threw"}
                      /\ calls = <<>>
                      /\ persistedRules = <<>>
        /\ engine.status = "threw" => invalid
        /\ engine.status = "constructed" =>
               /\ Len(engine.allow) = Len(engine.customAllowPatterns)
               /\ Len(engine.deny) = Len(engine.customDenyPatterns)
        /\ calls # <<>> => engine.status = "constructed"

\* the constructor compiled a valid custom allow pattern and then threw on a
\* custom deny pattern whose group is not closed
C16_Witness ==
    /\ engine.status = "threw"
    /\ engine.customAllowPatterns = <<"/cache$">>
    /\ engine.customDenyPatterns = <<"^execute:(rm -rf">>
    /\ calls = <<>>

(***************************************************************************)
(* Claims about ArchitectOrchestrator.requestApproval.                     *)
(***************************************************************************)
\* C17: requestApproval without an oracle resolves with {allow: true,
\* persist: "once", reasoning: "Oracle disabled"} and calls no engine; with
\* an oracle it calls decide with the same request and resolves with the
\* decision of that decide call; no step of requestApproval, of its
\* settling or of the engine changes the phase, the iteration, the plan,
\* the implementation, the evaluation or the thinking of the orchestrator,
\* nor where run stands or what it yielded.
C17_ApprovalPassThrough ==
    [][/\ \A r \in ApprovalRequests :
            RequestApproval(r) =>
                LET approval == approvals'[Len(approvals')]
                IN  /\ Len(approvals') = Len(approvals) + 1
                    /\ approval.request = r
                    /\ IF engine.status = "absent"
                       THEN /\ approval.decision =
                                  <<[allow |-> TRUE, persist |-> "once",
                                     reasoning |-> "Oracle disabled"]>>
                            /\ calls' = calls
                            /\ persistedRules' = persistedRules
                       ELSE /\ approval.decision = <<>>
                            /\ Len(calls') = Len(calls) + 1
                            /\ approval.call = Len(calls')
                            /\ calls'[Len(calls')].request = r
       /\ \A j \in 1..MaxApprovals :
            ApprovalSettles(j) =>
                /\ approvals'[j].decision = calls[approvals[j].call].decision
                /\ approvals'[j].decision # <<>>
                /\ calls[approvals[j].call].request = approvals[j].request
       /\ (approvals' # approvals \/ calls' # calls
           \/ persistedRules' # persistedRules) =>
              /\ state' = state
              /\ pc' = pc
              /\ updates' = updates
              /\ codebaseContext' = codebaseContext
              /\ roleCalls' = roleCalls]_vars

\* during Implementing, with the editor's call pending, the host asked for
\* approval of a deletion; the engine escalated and the approval resolved
\* with the adjudicator's denial
C17_Witness ==
    /\ pc = "await editorImplement"
    /\ state.phase = "implementing"
    /\ Len(approvals) = 1
    /\ approvals[1].phase = "implementing"
    /\ approvals[1].request = [action |-> "delete", target |-> "/data/1/cache"]
    /\ approvals[1].call = 1
    /\ calls[1].escalated
    /\ approvals[1].decision = <<[allow |-> FALSE, persist |-> "always",
                                  reasoning |-> "dangerous"]>>

\* an orchestrator without an oracle approved a request during Evaluating
C17_WitnessDisabled ==
    /\ engine.status = "absent"
    /\ Len(approvals) = 1
    /\ approvals[1].phase = "evaluating"
    /\ approvals[1].decision # <<>>
    /\ approvals[1].decision[1].reasoning = "Oracle disabled"
    /\ calls = <<>>

(***************************************************************************)
(* Claims about the updates of ArchitectOrchestrator.run.                  *)
(***************************************************************************)
\* what an update is in the order of emission: its type, and its phase when
\* it is a phase update
Tag(u) ==
    IF u.type = "phase" THEN u.phase ELSE u.type

\* the tags that may directly follow a tag other than thinking
NextTags(tag) ==
    CASE tag = "planning" -> {"thinking", "plan"}
      [] tag = "plan" -> {"implementing"}
      [] tag = "implementing" -> {"implementation"}
      [] tag = "implementation" -> {"architecture_review", "evaluating"}
      [] tag = "architecture_review" -> {"evaluating"}
      [] tag = "evaluating" -> {"thinking", "evaluation"}
      [] tag = "evaluation" -> {"complete", "planning", "max_iterations"}
      [] OTHER -> {}

\* C18: the first update is phase(planning) of iteration 1 or max_iterations;
\* each update is followed only by the next one of the order phase(planning),
\* [thinking], plan, phase(implementing), implementation,
\* [architecture_review], phase(evaluating), [thinking], evaluation, then
\* phase(planning) of the next iteration or a terminal update; a thinking
\* update stands between phase(planning) and plan or between
\* phase(evaluating) and evaluation; every phase update carries the number
\* of the iteration it belongs to, which grows by one from planning to
\* planning; nothing follows complete or max_iterations.
C18_EmissionOrder ==
    /\ updates # <<>> =>
           \/ updates[1] = [type |-> "phase", phase |-> "planning", iteration |-> 1]
           \/ updates[1].type = "max_iterations"
    /\ \A j \in 2..Len(updates) :
           LET prev == Tag(updates[j - 1])
               cur == Tag(updates[j])
           IN  IF prev = "thinking"
               THEN /\ j >= 3
                    /\ \/ Tag(updates[j - 2]) = "planning" /\ cur = "plan"
                       \/ Tag(updates[j - 2]) = "evaluating" /\ cur = "evaluation"
                    /\ updates[j].thinking = updates[j - 1].content
               ELSE cur \in NextTags(prev)
    /\ \A j \in 1..Len(updates) :
           updates[j].type = "phase" =>
               updates[j].iteration =
                   Cardinality({i \in 1..j : Tag(updates[i]) = "planning"})
    /\ \A j \in 1..Len(updates) :
           updates[j].type \in {"complete", "max_iterations"} => j = Len(updates)
    /\ pc = "returned" =>
           /\ updates # <<>>
           /\ updates[Len(updates)].type \in {"complete", "max_iterations"}

\* a run of two iterations that yielded thinking before its first plan and
\* before an evaluation, an architecture review, and complete as its last
\* update
C18_Witness ==
    /\ pc = "returned"
    /\ Len(updates) >= 3
    /\ updates[2].type = "thinking"
    /\ updates[3].type = "plan"
    /\ \E j \in 1..Len(updates) : updates[j].type = "architecture_review"
    /\ \E j \in 2..Len(updates) :
           updates[j].type = "evaluation" /\ updates[j - 1].type = "thinking"
    /\ Len(PhaseUpdates) = 6
    /\ updates[Len(updates)] = [type |-> "complete", iterations |-> 2]

\* C19: a run whose consumer keeps asking and whose role calls return
\* eventually returns (it throws only when a role call fails); when it has
\* returned the phase is complete or failed, at most maxIterations cycles
\* were run, exactly one terminal update was yielded and it is the last
\* update; once the phase is failed run is at its max_iterations update or
\* has returned: it has not thrown.
C19_Termination ==
    /\ <>(pc \in {"returned", "threw"})
    /\ [](pc = "returned" =>
              /\ state.phase \in {"complete", "failed"}
              /\ state.currentIteration <= config.maxIterations
              /\ Len(PhaseUpdates) = 3 * state.currentIteration
              /\ CountUpdates("complete", Len(updates))
                     + CountUpdates("max_iterations", Len(updates)) = 1
              /\ updates[Len(updates)].type =
                     (IF state.phase = "complete" THEN "complete"
                      ELSE "max_iterations")
              /\ updates[Len(updates)].iterations = state.currentIteration)
    /\ [](state.phase = "failed" => pc \in {"yield max_iterations", "returned"})
    /\ [](pc = "threw" =>
              /\ Len(roleCalls) > 0
              /\ \A j \in 1..Len(updates) :
                     updates[j].type \notin {"complete", "max_iterations"})

\* the phase during which each role is called
PhaseOfRole(role) ==
    CASE role = "architectPlan" -> "planning"
      [] role = "editorImplement" -> "implementing"
      [] role = "architectEvaluate" -> "evaluating"

\* C20: when the planning, implementing or evaluating role call rejects, run
\* throws with no update yielded and no call issued on that step; once run
\* has thrown nothing is yielded or called any more; no role is called twice
\* in one iteration; and when run has thrown, the last call is the failed one,
\* of the current iteration and phase, and the last update is still the phase
\* update that preceded that call.
C20_RoleCallErrorsPropagate ==
    /\ [][RoleCallRejects =>
              /\ pc' = "threw"
              /\ updates' = updates
              /\ roleCalls' = roleCalls
              /\ state' = state]_vars
    /\ [][pc = "threw" =>
              /\ pc' = "threw"
              /\ updates' = updates
              /\ roleCalls' = roleCalls]_vars
    /\ [](\A i, j \in 1..Len(roleCalls) :
              i < j => \/ roleCalls[i].role # roleCalls[j].role
                       \/ roleCalls[i].iteration # roleCalls[j].iteration)
    /\ [](pc = "threw" =>
              /\ Len(roleCalls) > 0
              /\ roleCalls[Len(roleCalls)].iteration = state.currentIteration
              /\ PhaseOfRole(roleCalls[Len(roleCalls)].role) = state.phase
              /\ updates[Len(updates)] =
                     [type |-> "phase", phase |-> state.phase,
                      iteration |-> state.currentIteration])

\* the implementing call of the second pass rejected: run has thrown after
\* the updates of a whole first pass
C20_Witness ==
    /\ pc = "threw"
    /\ state.currentIteration = 2
    /\ roleCalls[Len(roleCalls)].role = "editorImplement"
    /\ Len(roleCalls) = 5
    /\ CountUpdates("evaluation", Len(updates)) = 1
    /\ updates[Len(updates)].phase = "implementing"

\* the updates other than architecture_review, in order
NonAdvisoryUpdates ==
    SelectSeq(updates, LAMBDA u : u.type # "architecture_review")

\* where run stands between the implementation update and the evaluating
\* phase: at the advisory step
AdvisoryPositions ==
    {"yield implementation", "await reviewArchitecture", "yield architecture_review"}

\* C21: the advisory step never blocks or alters the transition: from the
\* advisory step of an iteration, with or without an analyzer and whatever it
\* finds, run goes on to the evaluating phase of the same iteration and
\* nowhere else; and the updates other than architecture_review follow one
\* another as in a run without an analyzer, the phase being complete only
\* after an approved evaluation.
C21_AdvisoryNeverAlters ==
    /\ [][(pc \in AdvisoryPositions /\ pc' # pc) =>
              \/ pc' \in AdvisoryPositions /\ state' = state
              \/ /\ pc' = "yield phase evaluating"
                 /\ state'.phase = "evaluating"
                 /\ state'.currentIteration = state.currentIteration]_vars
    /\ [](\A j \in 2..Len(NonAdvisoryUpdates) :
              LET prev == Tag(NonAdvisoryUpdates[j - 1])
                  cur == Tag(NonAdvisoryUpdates[j])
              IN  prev # "thinking" =>
                      cur \in (NextTags(prev) \ {"architecture_review"}))
    /\ [](state.phase = "complete" =>
              ReviewerApproves(state.evaluation[1]))

\* the range the settings page keeps Max Iterations in
MinBudget ==
    1

MaxBudget ==
    10

\* C22: whatever config.maxIterations the orchestrator was constructed with,
\* 0 included, a run that has ended without an error has performed at least
\* one Planning/Implementing/Evaluating cycle and at most MaxBudget cycles.
C22_BudgetClamped ==
    pc \in {"yield complete", "yield max_iterations", "returned"} =>
        /\ state.currentIteration >= MinBudget
        /\ state.currentIteration <= MaxBudget
        /\ CountUpdates("evaluation", Len(updates)) >= MinBudget
        /\ Len(PhaseUpdates) = 3 * state.currentIteration

\* the orders in which n calls can be made one after the other
Orderings(n) ==
    {f \in [1..n -> 1..n] : \A i, j \in 1..n : i # j => f[i] # f[j]}

\* a call made alone on a cache: decide runs to its end; when it asks the
\* adjudicator it gets the decision the call got (ok is FALSE when the call
\* never asked and so has none)
AloneOn(rules, call) ==
    LET out == decide(rules, call.request)
    IN  IF ~out.escalate
        THEN [ok |-> TRUE, allow |-> out.decision.allow, rules |-> out.rules]
        ELSE IF call.escalated
        THEN [ok |-> TRUE, allow |-> call.decision[1].allow,
              rules |-> IF call.decision[1].persist = "always"
                        THEN MapSet(rules, PatternTable[call.request],
                                    call.decision[1].allow)
                        ELSE rules]
        ELSE [ok |-> FALSE, allow |-> FALSE, rules |-> rules]

RECURSIVE InSequence(_, _, _)
\* the calls made one after the other in an order, from its k-th on: whether
\* each returns the allow it returned, and the cache left
InSequence(order, k, rules) ==
    IF k > Len(order) THEN [same |-> TRUE, rules |-> rules]
    ELSE LET call == calls[order[k]]
             out == AloneOn(rules, call)
         IN  IF out.ok /\ out.allow = call.decision[1].allow
             THEN InSequence(order, k + 1, out.rules)
             ELSE [same |-> FALSE, rules |-> rules]

\* the calls that wrote the cache: fast-path calls and calls whose
\* adjudicator decision has persist always
Writers ==
    {i \in 1..Len(calls) :
        /\ calls[i].decision # <<>>
        /\ calls[i].decision[1].persist = "always"
        /\ calls[i].decision[1].reasoning # "Cached rule"}

\* C23: with decide calls only, some of them suspended at the adjudicator
\* while others run: every cache entry holds the value written by one of the
\* calls, the Pattern of every call that wrote is in the cache, and once all
\* calls have returned there is an order in which the calls, made one after
\* the other on an empty cache, return the same allow values and leave the
\* same cache.
C23_ConcurrentDecideSafe ==
    adminOps = 0 =>
        /\ \A p \in DOMAIN persistedRules :
               \E i \in Writers :
                   /\ PatternTable[calls[i].request] = p
                   /\ calls[i].decision[1].allow = persistedRules[p]
        /\ \A i \in Writers : PatternTable[calls[i].request] \in DOMAIN persistedRules
        /\ (\A i \in 1..Len(calls) : calls[i].decision # <<>>) =>
               \E order \in Orderings(Len(calls)) :
                   LET out == InSequence(order, 1, <<>>)
                   IN  out.same /\ out.rules = persistedRules

\* C24: getState can be called whenever the generator is suspended or not
\* started; a getState call changes nothing of the orchestrator and its
\* result holds the fields this.state has at that moment; an assignment to
\* a field of a result changes neither this.state nor anything else of the
\* run, so that a later getState still returns the state of the run.
C24_GetStateSnapshot ==
    /\ [](host.reads < MaxReads => ENABLED GetState)
    /\ [][GetState =>
              /\ state' = state
              /\ pc' = pc
              /\ updates' = updates
              /\ host'.snapshot[1].fields = state]_vars
    /\ [][\A a \in Assignments :
              MutateSnapshot(a) =>
                  /\ state' = state
                  /\ pc' = pc
                  /\ updates' = updates
                  /\ roleCalls' = roleCalls
                  /\ host'.snapshot[1].fields[a.field] = a.value]_vars

\* during the implementing call of a run the caller took a second snapshot
\* after tampering with its first: the snapshot said phase complete and
\* iteration 99 when the second getState returned the run's own state, and
\* was then given a plan the run never had
C24_Witness ==
    /\ pc = "await editorImplement"
    /\ host.reads = 2
    /\ state.phase = "implementing"
    /\ state.currentIteration = 1
    /\ host.snapshot[1].fields.phase = "implementing"
    /\ host.snapshot[1].fields.plan = Some("tampered")
    /\ state.plan # Some("tampered")

\* how many role calls have returned: each gave a plan, implementation or
\* evaluation update, the last one possibly only its thinking update so far
ReturnedCalls ==
    CountUpdates("plan", Len(updates))
        + CountUpdates("implementation", Len(updates))
        + CountUpdates("evaluation", Len(updates))
        + (IF updates # <<>> /\ updates[Len(updates)].type = "thinking"
           THEN 1 ELSE 0)

\* a role call was made and has not returned
CallOutstanding ==
    Len(roleCalls) > ReturnedCalls

\* C25: the consumer stops only with abort set and only on an update, the
\* generator suspended at a yield, and stopping yields nothing and calls
\* nothing; once it has stopped no update is yielded, no role call is made
\* and the state stays as it is; while a role call is awaited the run cannot
\* be stopped: it goes on to the update of the call's result (or throws), so
\* at the stop no role call is outstanding.
C25_CooperativeCancellation ==
    /\ [][(pc # "cancelled" /\ pc' = "cancelled") =>
              /\ host.abort
              /\ pc \in YieldPositions
              /\ updates' = updates
              /\ roleCalls' = roleCalls
              /\ state' = state]_vars
    /\ [][pc = "cancelled" =>
              /\ pc' = "cancelled"
              /\ updates' = updates
              /\ roleCalls' = roleCalls
              /\ state' = state]_vars
    /\ [][(pc \in {"await architectPlan", "await editorImplement",
                   "await architectEvaluate"} /\ pc' # pc) =>
              \/ pc' \in YieldPositions /\ Len(updates') = Len(updates) + 1
              \/ pc' = "threw"]_vars
    /\ [](pc = "cancelled" => ~CallOutstanding)

\* abort was set and the consumer stopped on the evaluation update of the
\* first pass: three calls were made and none is outstanding
C25_Witness ==
    /\ pc = "cancelled"
    /\ host.abort
    /\ Len(roleCalls) = 3
    /\ updates[Len(updates)].type = "evaluation"
    /\ state.phase = "evaluating"
    /\ config.maxIterations = 2

\* C26 (as claimed): two engines with identical rule sets and identical cache
\* contents, handed the same request, return the same decision and end with
\* identical caches
C26_DecideDeterministic ==
    \A i \in 1..Len(calls) :
        (/\ i <= Len(twin.calls)
         /\ twin.same[i]
         /\ calls[i].decision # <<>>
         /\ twin.calls[i].decision # <<>>)
        => /\ calls[i].decision = twin.calls[i].decision
           /\ (i = Len(calls) => persistedRules = twin.rules)

\* the system prompt of a role before any persona is injected
BasePrompt(role) ==
    CASE role = "architectPlan" -> ArchitectPlanPrompt
      [] role = "editorImplement" -> EditorImplementPrompt
      [] role = "architectEvaluate" -> ArchitectEvaluatePrompt

\* the persona settings are on, carry a text and name the handler's role
Targets(persona, handler) ==
    /\ persona # Null
    /\ persona[1].enabled
    /\ Trim(persona[1].markdown) # ""
    /\ persona[1].applyTo \in {handler, "both"}

\* what of a role call does not depend on the system prompt or on the
\* progress of its stream
CallOf(call) ==
    [role |-> call.role, handler |-> call.handler, iteration |-> call.iteration,
     context |-> call.context, message |-> call.message]

\* C27: the persona settings change the system prompt of the role(s) they
\* name and nothing else: a role they do not name gets its plain prompt, a role
\* they name gets it with the wrapped persona text before or after; and a run
\* that gets the same streams as an earlier run made under other persona
\* settings yields the same updates, makes the same calls (system prompt
\* aside) and ends in the same place with the same state
C27_PersonaOnlyChangesPrompts ==
    /\ \A i \in 1..Len(roleCalls) :
          LET call == roleCalls[i]
              base == BasePrompt(call.role)
          IN  IF Targets(config.persona, call.handler)
              THEN LET wrapped == "<persona>\n" \o Trim(config.persona[1].markdown)
                                     \o "\n</persona>"
                   IN  call.systemPrompt =
                           IF config.persona[1].position = "prepend"
                           THEN wrapped \o "\n\n" \o base
                           ELSE base \o "\n\n" \o wrapped
              ELSE call.systemPrompt = base
    /\ baseline # Null =>
          /\ Len(updates) <= Len(baseline[1].updates)
          /\ \A n \in 1..Len(updates) : updates[n] = baseline[1].updates[n]
          /\ Len(roleCalls) <= Len(baseline[1].roleCalls)
          /\ \A i \in 1..Len(roleCalls) :
                CallOf(roleCalls[i]) = CallOf(baseline[1].roleCalls[i])
          /\ pc \in Ended =>
                /\ pc = baseline[1].pc
                /\ state = baseline[1].state
                /\ updates = baseline[1].updates
                /\ Len(roleCalls) = Len(baseline[1].roleCalls)

\* a run under persona settings naming the architect has ended as the run
\* made before it without them, its architect calls carrying the persona
C27_Witness ==
    /\ baseline # Null
    /\ baseline[1].config.persona = Null
    /\ Targets(config.persona, "architect")
    /\ ~Targets(config.persona, "editor")
    /\ pc = "returned"
    /\ state.phase = "complete"
    /\ Len(roleCalls) = 3
    /\ roleCalls[1].systemPrompt # baseline[1].roleCalls[1].systemPrompt
    /\ roleCalls[2].systemPrompt = baseline[1].roleCalls[2].systemPrompt

\* the text chunks of a chunk sequence, joined
RECURSIVE WholeText(_)
WholeText(chunks) ==
    IF chunks = <<>> THEN ""
    ELSE (IF Head(chunks).type = "text" THEN Head(chunks).text ELSE "")
         \o WholeText(Tail(chunks))

\* the reasoning chunks of a chunk sequence, joined
RECURSIVE WholeReasoning(_)
WholeReasoning(chunks) ==
    IF chunks = <<>> THEN ""
    ELSE (IF Head(chunks).type = "reasoning" THEN Head(chunks).reasoning ELSE "")
         \o WholeReasoning(Tail(chunks))

\* the role call whose result an update type carries
RoleOfResult(type) ==
    CASE type = "plan" -> "architectPlan"
      [] type = "implementation" -> "editorImplement"
      [] type = "evaluation" -> "architectEvaluate"

\* the role calls that have not returned
Outstanding ==
    {i \in 1..Len(roleCalls) : ~roleCalls[i].returned}

\* C28: role calls are made one at a time: at most one has not returned, it is
\* the latest, and while run is suspended at a role call exactly that one is
\* outstanding; and the n-th plan, implementation or evaluation update
\* belongs to the n-th call of that role, which has returned after its whole
\* chunk sequence was received, and carries the whole text (and, for plan and
\* evaluation, the whole reasoning) of that sequence
C28_OneCallFullyDrained ==
    /\ Cardinality(Outstanding) <= 1
    /\ Outstanding \subseteq {Len(roleCalls)}
    /\ (pc \in {"await architectPlan", "await editorImplement",
                "await architectEvaluate"}) => Outstanding = {Len(roleCalls)}
    /\ Outstanding # {} => pc \in {"await architectPlan", "await editorImplement",
                                   "await architectEvaluate", "threw"}
    /\ \A type \in {"plan", "implementation", "evaluation"} :
          LET results == SelectSeq(updates, LAMBDA u : u.type = type)
              made == SelectSeq(roleCalls, LAMBDA c : c.role = RoleOfResult(type))
          IN  /\ Len(results) <= Len(made)
              /\ \A n \in 1..Len(results) :
                    /\ made[n].returned
                    /\ made[n].chunks \in StreamsOf(made[n].role)
                    /\ results[n].content = WholeText(made[n].chunks)
                    /\ type # "implementation" =>
                           results[n].thinking = WholeReasoning(made[n].chunks)

\* a plan call received part of a stream holding a chunk that is neither text
\* nor reasoning, nothing of it was yielded, and later its plan update was
C28_Witness ==
    /\ Len(roleCalls) >= 2
    /\ roleCalls[1].returned
    /\ Len(roleCalls[1].chunks) = 5
    /\ ~roleCalls[2].returned
    /\ Len(roleCalls[2].chunks) = 1
    /\ pc = "await editorImplement"
    /\ \E n \in 1..Len(updates) : updates[n].type = "plan"

\* the roles of the three calls of an iteration, in order, and the backend
\* each goes to
RoleOrder ==
    <<[role |-> "architectPlan", handler |-> "architect"],
      [role |-> "editorImplement", handler |-> "editor"],
      [role |-> "architectEvaluate", handler |-> "architect"]>>

\* C29: the i-th role call of a run is call ((i-1) mod 3)+1 of iteration
\* ((i-1) div 3)+1, the three calls of an iteration being the plan (to the
\* architect backend), the implementation (to the editor backend, its message
\* carrying the plan text the plan call returned) and the evaluation (to the
\* architect backend, its message carrying the task and the texts the plan
\* and implementation calls returned); the editor backend gets no other call;
\* an iteration that was left has made all three; and a run makes at most
\* 3 * maxIterations calls
C29_ThreeCallsPerIteration ==
    /\ Len(roleCalls) <= 3 * config.maxIterations
    /\ \A i \in 1..Len(roleCalls) :
          LET call == roleCalls[i]
              k == ((i - 1) % 3) + 1
          IN  /\ call.iteration = ((i - 1) \div 3) + 1
              /\ call.role = RoleOrder[k].role
              /\ call.handler = RoleOrder[k].handler
              /\ call.handler = "editor" <=> call.role = "editorImplement"
              /\ k > 1 => roleCalls[i - 1].returned
              /\ k = 2 =>
                    call.message =
                        "Context:\n" \o call.context
                        \o "\n\n---\n\nArchitect's Plan:\n"
                        \o WholeText(roleCalls[i - 1].chunks)
                        \o "\n\nImplement this plan now."
              /\ k = 3 =>
                    call.message =
                        "Original Task:\n" \o Task \o "\n\n---\n\nPlan:\n"
                        \o WholeText(roleCalls[i - 2].chunks)
                        \o "\n\n---\n\nImplementation:\n"
                        \o WholeText(roleCalls[i - 1].chunks)
                        \o "\n\n---\n\nContext:\n" \o call.context
                        \o "\n\nEvaluate the implementation."
    /\ \A n \in 1..(state.currentIteration - 1) :
          Cardinality({i \in 1..Len(roleCalls) : roleCalls[i].iteration = n}) = 3
    /\ (pc \in {"yield complete", "yield max_iterations", "returned"}) =>
          Len(roleCalls) = 3 * state.currentIteration

\* a run of the largest budget has used it up: three calls in each iteration
C29_Witness ==
    /\ config.maxIterations = MaxIterations
    /\ pc = "returned"
    /\ state.phase = "failed"
    /\ Len(roleCalls) = 3 * MaxIterations
    /\ roleCalls[Len(roleCalls)].returned

\* the approval token, and the same in lower case
ApprovalToken ==
    "APPROVED"

ApprovalTokenLower ==
    "approved"

\* the text, from its first character that is not whitespace on, begins with
\* the letters of the approval token, each in either case
Approves(text) ==
    \E start \in 1..Len(text) :
        /\ \A j \in 1..(start - 1) : CharAt(text, j) \in WhiteSpace
        /\ start + Len(ApprovalToken) - 1 <= Len(text)
        /\ \A k \in 1..Len(ApprovalToken) :
              CharAt(text, start + k - 1) \in {CharAt(ApprovalToken, k),
                                              CharAt(ApprovalTokenLower, k)}

\* C30: the update that follows an evaluation update is complete exactly when
\* the evaluation text approves (leading whitespace skipped, either case,
\* token first); otherwise the pass ends without completing: the next pass
\* begins or max_iterations is yielded; and the phase is complete only after
\* such an evaluation
C30_ConvergenceCheck ==
    /\ \A n \in 1..(Len(updates) - 1) :
          updates[n].type = "evaluation" =>
              IF Approves(updates[n].content)
              THEN updates[n + 1].type = "complete"
              ELSE \/ updates[n + 1].type = "max_iterations"
                   \/ /\ updates[n + 1].type = "phase"
                      /\ updates[n + 1].phase = "planning"
    /\ \A n \in 1..Len(updates) :
          updates[n].type = "complete" =>
              /\ n > 1
              /\ updates[n - 1].type = "evaluation"
              /\ Approves(updates[n - 1].content)
    /\ state.phase = "complete" <=>
          /\ updates # <<>>
          /\ updates[Len(updates)].type = "complete"

\* a run completed on an evaluation that approves in mixed case after
\* whitespace, after a pass whose evaluation held the token further on
C30_Witness ==
    /\ state.phase = "complete"
    /\ state.currentIteration = 2
    /\ \E n \in 1..Len(updates) :
          /\ updates[n].type = "evaluation"
          /\ Contains(updates[n].content, ApprovalToken)
          /\ ~Approves(updates[n].content)
    /\ updates[Len(updates) - 1].type = "evaluation"
    /\ CharAt(updates[Len(updates) - 1].content, 1) \in WhiteSpace
    /\ Approves(updates[Len(updates) - 1].content)

\* the role calls of a backend that have returned, in order
ReturnedOf(handler) ==
    SelectSeq(roleCalls, LAMBDA c : c.handler = handler /\ c.returned)

\* the texts an update carries
TextsOf(update) ==
    {update[f] : f \in DOMAIN update \cap {"content", "thinking"}}

\* C31: the n-th implementation update is the text chunks of the n-th editor
\* response joined in the order they came, and the reasoning of an editor
\* response occurs in no update and not in the context that updateContext
\* has just rebuilt at the top of the loop;
\* for the architect, the n-th plan or evaluation update holds the text chunks
\* joined as content and the reasoning chunks joined as thinking, and the
\* thinking updates are, in order, the non-empty reasonings of the architect
\* responses: none is emitted for an empty one
C31_ReasoningSeparation ==
    LET editor == ReturnedOf("editor")
        architect == ReturnedOf("architect")
        implementations == SelectSeq(updates, LAMBDA u : u.type = "implementation")
        results == SelectSeq(updates, LAMBDA u : u.type \in {"plan", "evaluation"})
        thinkings == SelectSeq(updates, LAMBDA u : u.type = "thinking")
        reasoned == SelectSeq(architect, LAMBDA c : WholeReasoning(c.chunks) # "")
    IN  /\ Len(implementations) = Len(editor)
        /\ \A n \in 1..Len(editor) :
              /\ implementations[n].content = WholeText(editor[n].chunks)
              /\ LET reasoning == WholeReasoning(editor[n].chunks)
                 IN  reasoning # "" =>
                       /\ \A m \in 1..Len(updates) :
                             \A text \in TextsOf(updates[m]) : ~Contains(text, reasoning)
                       /\ pc \in {"yield phase planning", "yield max_iterations"} =>
                             ~Contains(codebaseContext, reasoning)
        /\ Len(results) <= Len(architect)
        /\ \A n \in 1..Len(results) :
              /\ results[n].content = WholeText(architect[n].chunks)
              /\ results[n].thinking = WholeReasoning(architect[n].chunks)
        /\ Len(thinkings) = Len(reasoned)
        /\ \A n \in 1..Len(thinkings) :
              thinkings[n].content = WholeReasoning(reasoned[n].chunks)

\* a second pass is under way after an editor response with reasoning, a plan
\* whose text and reasoning chunks alternated and a plan without reasoning
C31_Witness ==
    /\ state.currentIteration = 2
    /\ Len(roleCalls) >= 4
    /\ roleCalls[4].returned
    /\ WholeReasoning(roleCalls[1].chunks) = "which file? login.ts"
    /\ WholeText(roleCalls[1].chunks) = "## Files to Modify\nsrc/login.ts"
    /\ WholeReasoning(roleCalls[2].chunks) # ""
    /\ WholeReasoning(roleCalls[4].chunks) = ""
    /\ Contains(codebaseContext, WholeText(roleCalls[2].chunks))

\* C32 (as claimed): after decide calls alone (no importRules, no clear), a
\* call answered from the cache with allow = true is for a request whose
\* literal matches no deny matcher
C32_CachedAllowNeverDenied ==
    adminOps = 0 =>
        \A i \in 1..Len(calls) :
            (/\ calls[i].decision # <<>>
             /\ calls[i].decision[1].reasoning = "Cached rule"
             /\ calls[i].decision[1].allow = TRUE)
            => ~DenyMatches(calls[i].request)

\* C33 (as claimed): with decide calls alone (no importRules, no clear), no
\* step of a decide call, the resumption of a suspended one included, removes
\* a cache entry or changes the value of a Pattern that is cached
C33_CacheWriteOnce ==
    [][adminOps' = 0 =>
           \A p \in DOMAIN persistedRules :
               /\ p \in DOMAIN persistedRules'
               /\ persistedRules'[p] = persistedRules[p]]_vars

\* C34 (as claimed): an orchestrator constructed with approvalOracle.enabled
\* = true, whatever its API key, never resolves requestApproval with the
\* "Oracle disabled" decision, and denies a request whose literal matches a
\* deny matcher
C34_EnabledOracleDecides ==
    config.oracleEnabled =>
        \A j \in 1..Len(approvals) :
            approvals[j].decision # <<>> =>
                /\ approvals[j].decision[1].reasoning # "Oracle disabled"
                /\ DenyTable[approvals[j].request] =>
                       approvals[j].decision[1].allow = FALSE

\* C35 (as claimed): when run is called again on an orchestrator whose first
\* run ended with phase complete or failed, the later run leaves phase and
\* iteration as the first run left them, makes no role call and yields no
\* phase update
C35_TerminalAbsorbing ==
    (/\ baseline # Null
     /\ baseline[1].state.phase \in {"complete", "failed"})
    => /\ state.phase = baseline[1].state.phase
       /\ state.currentIteration = baseline[1].state.currentIteration
       /\ roleCalls = <<>>
       /\ \A n \in 1..Len(updates) : updates[n].type # "phase"

\* C36: with maxIterations >= 1 the iteration counter is always within
\* 0..maxIterations and is 0 until run's body starts; a step changes it only
\* by adding exactly 1, and only when a loop pass begins (the step that
\* yields the planning phase update), and every step that begins a loop pass
\* adds 1; every step that yields a phase update yields it with the phase and
\* iteration the snapshot has at that moment.
C36_IterationCounter ==
    /\ [](config.maxIterations >= 1 =>
              /\ state.currentIteration \in 0..config.maxIterations
              /\ pc \in {"idle", "start"} => state.currentIteration = 0)
    /\ [][config.maxIterations >= 1 =>
              /\ state'.currentIteration >= state.currentIteration
              /\ state'.currentIteration # state.currentIteration =>
                     /\ state'.currentIteration = state.currentIteration + 1
                     /\ pc' = "yield phase planning"
              /\ (pc' = "yield phase planning" /\ pc # pc') =>
                     state'.currentIteration = state.currentIteration + 1
              /\ (Len(updates') = Len(updates) + 1
                  /\ updates'[Len(updates')].type = "phase") =>
                     /\ updates'[Len(updates')].phase = state'.phase
                     /\ updates'[Len(updates')].iteration = state'.currentIteration]_vars

\* the evaluating phase update of the last allowed pass of a budget of at
\* least two has just been yielded
C36_Witness ==
    /\ config.maxIterations >= 2
    /\ state.currentIteration = config.maxIterations
    /\ pc = "yield phase evaluating"
    /\ updates[Len(updates)] = [type |-> "phase", phase |-> "evaluating",
                                iteration |-> config.maxIterations]

\* C37: a step in which the awaited planning, implementing or evaluating
\* role call fails, before or after some of its chunks arrived, ends the run
\* and leaves the snapshot as it was: in the phase of the failed call, which
\* is not a terminal one, and with the iteration number of the pass the call
\* belongs to (the number of planning phase updates yielded so far, at
\* least 1); a run ended by such a failure has yielded neither complete nor
\* max_iterations, its phase is neither failed nor complete, and its
\* snapshot does not change afterwards.
C37_RoleCallFailureLeavesPhase ==
    /\ [][RoleCallRejects =>
              /\ pc' = "threw"
              /\ state'.phase = state.phase
              /\ state'.phase = PhaseOfRole(roleCalls[Len(roleCalls)].role)
              /\ state'.currentIteration = roleCalls[Len(roleCalls)].iteration
              /\ state'.currentIteration =
                     Cardinality({n \in 1..Len(updates') :
                                    /\ updates'[n].type = "phase"
                                    /\ updates'[n].phase = "planning"})
              /\ state'.currentIteration >= 1]_vars
    /\ [](pc = "threw" =>
              /\ state.phase \in {"planning", "implementing", "evaluating"}
              /\ \A n \in 1..Len(updates) :
                     updates[n].type \notin {"complete", "max_iterations"})
    /\ [][pc = "threw" => state' = state /\ updates' = updates]_vars

\* run ended by an evaluating call of the second pass that failed after a
\* chunk of its stream had arrived
C37_Witness ==
    /\ pc = "threw"
    /\ state.phase = "evaluating"
    /\ state.currentIteration = 2
    /\ roleCalls[Len(roleCalls)].role = "architectEvaluate"
    /\ roleCalls[Len(roleCalls)].chunks # <<>>

\* C38: in the standalone engine every decide call the adjudicator answered
\* returns a decision (it does not throw) whose allow is a boolean and whose
\* persist is one of once, session, always, whatever the response was, and
\* every value in the module-level cache is a boolean.
C38_StandaloneDecisionShape ==
    /\ \A i \in 1..Len(calls) :
           /\ ~calls[i].threw
           /\ calls[i].decision # <<>> =>
                  /\ calls[i].decision[1].allow.t = "boolean"
                  /\ calls[i].decision[1].persist.t = "string"
                  /\ calls[i].decision[1].persist.s \in PersistScopes
    /\ \A p \in DOMAIN persistedRules : persistedRules[p].t = "boolean"

=============================================================================
